---- MODULE Spec2Model ----
(***************************************************************************)
(* A model of the map subsystem of cplace (client/src/map): the            *)
(* asynchronous tile loader (loader.rs) on both of its build targets, the  *)
(* LRU tile cache (cache.rs), the camera (camera.rs), the tile arithmetic  *)
(* (tile.rs) and the MapSystem that drives them frame by frame (mod.rs).   *)
(*                                                                         *)
(* Every component is a record of the fields of the Rust struct, and every *)
(* method is an operator from the record before the call to the record     *)
(* after it, so that one definition of a method serves every specification *)
(* that uses the component.                                                *)
(***************************************************************************)
EXTENDS Integers, Sequences, FiniteSets, TLC

VARIABLES
    loader,      \* the TileLoader and its fetch-execution context
    mirror,      \* SpecPair only: the same loader built for wasm32
    dispatched,  \* history: tile id of every fetch dispatched; index = fetch number
    returned,    \* history: the fetch numbers whose results poll has returned
    lastCall,    \* history: the most recent call on the loader and what it returned
    mirrorRet,   \* SpecPair only: what the most recent call returned on `mirror`
    cleared,     \* history: clear_pending has removed a tile from pending
    cache,       \* the TileCache
    inserted,    \* history: keys in the order they were first inserted
    touched,     \* history: keys in the order they were last touched (insert, get hit)
    plain,       \* history: only inserts of distinct keys and reads so far
    cacheCall,   \* history: the most recent call on the cache and what it returned
    camera,      \* the MapCamera
    cameraCall,  \* history: the most recent call on the camera
    tileCall,    \* the most recent call of a function of tile.rs, and where it is
    render_tiles, \* MapSystem only: the render list
    frame,       \* MapSystem only, history: what the most recent update did
    wasm         \* SpecWasm only: the mutex of the result buffer and the fetch tasks

loaderVars == <<loader, mirror, dispatched, returned, lastCall, mirrorRet, cleared>>
cacheVars == <<cache, inserted, touched, plain, cacheCall>>
cameraVars == <<camera, cameraCall>>
tileVars == <<tileCall>>
systemVars == <<render_tiles, frame>>
wasmVars == <<wasm>>
vars == <<loaderVars, cacheVars, cameraVars, tileVars, systemVars, wasmVars>>

(***************************************************************************)
(* Bounds of the model.                                                    *)
(***************************************************************************)
NumKeys == 2          \* tile ids the loader's callers choose among
MaxFetches == 3       \* fetches dispatched in one behaviour
NumCacheKeys == 3     \* tile ids the cache's callers choose among
MaxTilesChoice == 3   \* largest max_tiles a cache is built with
MaxTileMem == 2       \* largest memory_size of one CachedTile

MaxZoomLevel == 19

\* Option<T>: None is the empty sequence, Some(x) the sequence of x alone.
None == <<>>
Some(x) == <<x>>

(***************************************************************************)
(* tile.rs                                                                 *)
(***************************************************************************)
TileId(x, y, z) == [x |-> x, y |-> y, z |-> z]

\* Tile ids used as keys: the first n tiles of row 0 at the deepest zoom.
TileKeys(n) == { TileId(x, 0, MaxZoomLevel) : x \in 0..(n - 1) }

Keys == TileKeys(NumKeys)
CacheKeys == TileKeys(NumCacheKeys)

\* format!("https://tile.openstreetmap.org/{}/{}/{}.png", z, x, y)
to_osm_url(tile_id) == <<"https://tile.openstreetmap.org", tile_id.z, tile_id.x, tile_id.y, "png">>

\* Angles. A longitude is a whole number of units of 45 degrees, so that a
\* full turn of 360 degrees is 8 units and the fractional tile column
\* (lon + 180) / 360 * 2^z is the exact quotient (lon + HalfTurn) * 2^z / Turn.
\* A latitude is a whole number of units of 42.52556439 degrees, half of the
\* Mercator limit 85.05112878.
Turn == 8
HalfTurn == 4
LatLimit == 2

\* 1 << zoom
Pow2(zoom) == 2 ^ zoom

\* The quotient a / b rounded up, for b > 0.
CeilDiv(a, b) == -((-a) \div b)

\* The % of Rust on signed integers: the remainder has the sign of x.
Rem(x, m) == IF x >= 0 \/ x % m = 0 THEN x % m ELSE (x % m) - m

\* lon_lat_to_tile_f64, latitude part: (1 - asinh(tan(lat)) / PI) / 2, as the
\* floor of its value times 2^30 and whether that value is the exact one.
\* The Mercator limit of the code lies a little beyond the latitude where
\* the projection reaches 0 and 1, so the value is just below 0 at the
\* northern limit and just above 1 at the southern limit.
MercatorBits == 30
MercatorY(lat) ==
    CASE lat = 2  -> [y |-> -1,         exact |-> FALSE]
      [] lat = 1  -> [y |-> 396473112,  exact |-> FALSE]
      [] lat = 0  -> [y |-> 536870912,  exact |-> TRUE]
      [] lat = -1 -> [y |-> 677268711,  exact |-> FALSE]
      [] lat = -2 -> [y |-> 1073741824, exact |-> FALSE]

\* lon_lat_to_tile_f64: the floor and the ceiling of each coordinate of the
\* fractional tile position, which is all that its callers here use.
lon_lat_to_tile_f64(lon, lat, zoom) ==
    LET n == Pow2(zoom)
        m == MercatorY(lat)
        d == Pow2(MercatorBits - zoom)
    IN [ x_floor |-> ((lon + HalfTurn) * n) \div Turn,
         x_ceil  |-> CeilDiv((lon + HalfTurn) * n, Turn),
         y_floor |-> m.y \div d,
         y_ceil  |-> IF m.exact /\ m.y % d = 0 THEN m.y \div d ELSE (m.y \div d) + 1 ]

\* The range of i32.
I32Max == 2147483647
I32Min == -I32Max - 1

\* wrap_tile_x: the i32 sum (x % max_tiles) + max_tiles, before the cast.
wrap_tile_x_sum(x, zoom) ==
    LET max_tiles == Pow2(zoom)
    IN Rem(x, max_tiles) + max_tiles

\* A wrap_tile_x that takes the magnitude of the remainder.
wrap_tile_x_abs(x, zoom) ==
    LET max_tiles == Pow2(zoom)
        r == Rem(x, max_tiles)
    IN (IF r < 0 THEN -r ELSE r) % max_tiles

\* wrap_tile_x, on i32 and u32. The cast `as u32` of a negative sum adds
\* 2^32, a multiple of max_tiles, so that the remainder is that of the sum.
wrap_tile_x(x, zoom) ==
    LET max_tiles == Pow2(zoom)
    IN wrap_tile_x_sum(x, zoom) % max_tiles

\* An is_valid_tile_y that lets the row 2^zoom through.
is_valid_tile_y_inclusive(y, zoom) ==
    LET max_tiles == Pow2(zoom)
    IN y >= 0 /\ y <= max_tiles

\* is_valid_tile_y
is_valid_tile_y(y, zoom) ==
    LET max_tiles == Pow2(zoom)
    IN y >= 0 /\ y < max_tiles

\* normalize_longitude: `while l < -180.0 { l += 360.0 }` and then
\* `while l > 180.0 { l -= 360.0 }`.
RECURSIVE normalize_up(_)
normalize_up(l) == IF l < -HalfTurn THEN normalize_up(l + Turn) ELSE l

RECURSIVE normalize_down(_)
normalize_down(l) == IF l > HalfTurn THEN normalize_down(l - Turn) ELSE l

normalize_longitude(lon) == normalize_down(normalize_up(lon))

\* f64::clamp
Clamp(v, lo, hi) == IF v < lo THEN lo ELSE IF v > hi THEN hi ELSE v

\* clamp_latitude
clamp_latitude(lat) == Clamp(lat, -LatLimit, LatLimit)

\* A longitude so large that the f64 nearest to it plus or minus 360 is
\* itself: any finite f64 of magnitude above 2^62, or an infinity.
HugeLon == 2 ^ 30

\* The f64 sum l + d for d of one turn.
AddF64(l, d) == IF l >= HugeLon \/ l <= -HugeLon THEN l ELSE l + d

\* normalize_longitude, one test of a loop condition and the iteration that
\* follows it: pc says which loop l is in.
normalize_step(l, pc) ==
    CASE pc = "up" ->
           IF l < -HalfTurn THEN [l |-> AddF64(l, Turn), pc |-> "up"]
           ELSE [l |-> l, pc |-> "down"]
      [] pc = "down" ->
           IF l > HalfTurn THEN [l |-> AddF64(l, -Turn), pc |-> "down"]
           ELSE [l |-> l, pc |-> "done"]

\* `as u32` of a floored f64: a negative value gives 0. The values of the
\* model stay below u32::MAX, where the cast would stop as well.
as_u32(v) == IF v < 0 THEN 0 ELSE v

\* u32::min
Min(a, b) == IF a < b THEN a ELSE b

\* A tile_at that returns the cast indices as they are.
tile_at_no_clamp(c, zoom) == << as_u32(c.x_floor), as_u32(c.y_floor) >>

\* lon_lat_to_tile from the fractional tile position c on: floor, the cast
\* to u32 and the clamp to max_tile.
tile_at(c, zoom) ==
    LET x == as_u32(c.x_floor)
        y == as_u32(c.y_floor)
        max_tile == Pow2(zoom) - 1
    IN << Min(x, max_tile), Min(y, max_tile) >>

\* lon_lat_to_tile: its fractional tile position is that of
\* lon_lat_to_tile_f64.
lon_lat_to_tile(lon, lat, zoom) == tile_at(lon_lat_to_tile_f64(lon, lat, zoom), zoom)

\* The point of test_lon_lat_to_tile, lon 126.9780 and lat 37.5665, which
\* are not whole units: (lon + 180) / 360 and (1 - asinh(tan(lat)) / PI) / 2
\* as the floor of the value times 2^30.
Seoul == [x |-> 915597549, y |-> 415808976]

\* lon_lat_to_tile_f64 of that point.
lon_lat_to_tile_f64_seoul(zoom) ==
    LET d == Pow2(MercatorBits - zoom)
    IN [ x_floor |-> Seoul.x \div d, x_ceil |-> (Seoul.x \div d) + 1,
         y_floor |-> Seoul.y \div d, y_ceil |-> (Seoul.y \div d) + 1 ]

\* tile_to_lon_lat: the longitude x / n * 360 - 180 is exact in f64 and is
\* kept as the fraction num/den of a longitude unit; the latitude is the
\* f64 that atan(sinh(PI * (1 - 2 * y / n))).to_degrees() gives, named by
\* the row and the zoom it was computed from.
tile_to_lon_lat(x, y, zoom) ==
    LET n == Pow2(zoom)
    IN [ lon |-> [num |-> (x * Turn) - (HalfTurn * n), den |-> n],
         lat |-> [row |-> y, zoom |-> zoom] ]

\* The largest zoom of the table below.
MaxCornerZoom == 4

\* The deepest zoom of which every tile is given to calculate_sub_region.
MaxSubZoom == 3

\* Where (1 - asinh(tan(lat)) / PI) / 2 * n falls, computed in f64, for the
\* latitude that tile_to_lon_lat returns for row y at a zoom up to
\* MaxCornerZoom: below y (-1), on y (0) or above y (1).
CornerRounding(y, zoom) ==
    CASE y = 0 -> -1
      [] zoom = 2 /\ y = 1 -> -1
      [] zoom = 3 /\ y = 2 -> -1
      [] zoom = 4 /\ y \in {1, 4} -> -1
      [] zoom = 4 /\ y \in {3, 15} -> 1
      [] OTHER -> 0

\* lon_lat_to_tile_f64 of a point p that tile_to_lon_lat returned, at the
\* zoom it was computed from. (lon + 180) / 360 * n is exact in f64.
lon_lat_to_tile_f64_corner(p, zoom) ==
    LET n == Pow2(zoom)
        x == (p.lon.num + (HalfTurn * p.lon.den)) * n
        r == CornerRounding(p.lat.row, p.lat.zoom)
    IN [ x_floor |-> x \div (Turn * p.lon.den),
         x_ceil  |-> CeilDiv(x, Turn * p.lon.den),
         y_floor |-> IF r < 0 THEN p.lat.row - 1 ELSE p.lat.row,
         y_ceil  |-> IF r > 0 THEN p.lat.row + 1 ELSE p.lat.row ]

(***************************************************************************)
(* loader.rs                                                               *)
(*                                                                         *)
(* `fid` numbers the fetches in dispatch order. It is carried by the       *)
(* request and by its result only to tell two fetches of one tile apart    *)
(* in the histories; no method reads it.                                   *)
(***************************************************************************)
Targets == {"native", "wasm32"}
FetchOutcomes == {"Success", "Failed"}

TileRequest(tile_id, fid) == [tile_id |-> tile_id, url |-> to_osm_url(tile_id), fid |-> fid]

\* TileLoadResult::Success(id, bytes) | TileLoadResult::Failed(id, reason)
TileLoadResult(kind, request) == [kind |-> kind, tile_id |-> request.tile_id, fid |-> request.fid]

\* TileLoader::new. request_tx and result_rx hold the contents of the two
\* channels (native) or of the shared Vec (wasm32); worker is the request the
\* native worker thread is fetching (<<>> while it blocks in recv); tasks are
\* the futures spawn_local has started and that have not pushed their result.
\* The worker is taken to have built its HTTP client: the .expect at
\* loader.rs:166 aborts the thread otherwise.
TileLoader_new(target) ==
    [ target     |-> target,
      pending    |-> {},
      request_tx |-> <<>>,
      worker     |-> <<>>,
      tasks      |-> {},
      result_rx  |-> <<>> ]

is_loading(L, tile_id) == tile_id \in L.pending

pending_count(L) == Cardinality(L.pending)

\* spawn_local(async move { ... }): the task exists from now on and pushes
\* its one result when its awaits are over (wasm_task_done).
spawn_wasm_fetch(L, request) == [L EXCEPT !.tasks = @ \cup {request}]

\* A request that dispatches whether or not the tile is pending.
request_no_dedup(L, tile_id, fid) ==
    IF L.target = "native"
    THEN [L EXCEPT !.request_tx = Append(@, TileRequest(tile_id, fid)),
                   !.pending = @ \cup {tile_id}]
    ELSE spawn_wasm_fetch([L EXCEPT !.pending = @ \cup {tile_id}], TileRequest(tile_id, fid))

\* A request that dispatches and does not mark the tile pending.
request_no_mark(L, tile_id, fid) ==
    IF tile_id \in L.pending
    THEN L
    ELSE IF L.target = "native"
         THEN [L EXCEPT !.request_tx = Append(@, TileRequest(tile_id, fid))]
         ELSE spawn_wasm_fetch(L, TileRequest(tile_id, fid))

\* TileLoader::request. The send of the native branch succeeds while the
\* worker holds request_rx, which it does for as long as the loader lives.
\* The call is one step: between the send and the insert of the native
\* branch only the worker can run, and the worker reads and writes the two
\* channels only, never pending, so its steps can be taken after the call.
request(L, tile_id, fid) ==
    IF tile_id \in L.pending
    THEN L
    ELSE IF L.target = "native"
         THEN [L EXCEPT !.request_tx = Append(@, TileRequest(tile_id, fid)),
                        !.pending = @ \cup {tile_id}]
         ELSE spawn_wasm_fetch([L EXCEPT !.pending = @ \cup {tile_id}],
                               TileRequest(tile_id, fid))

\* mpsc::Receiver::try_recv: the oldest message, which leaves the channel.
try_recv(q) == [item |-> Head(q), rest |-> Tail(q)]

\* Vec::pop: the last element, which leaves the vector.
vec_pop(q) == [item |-> q[Len(q)], rest |-> SubSeq(q, 1, Len(q) - 1)]

\* A poll that forgets every pending tile when it returns a result.
poll_forget_all(L) ==
    IF L.result_rx = <<>>
    THEN [loader |-> L, result |-> None]
    ELSE LET got == IF L.target = "native" THEN try_recv(L.result_rx) ELSE vec_pop(L.result_rx)
         IN [loader |-> [L EXCEPT !.result_rx = got.rest, !.pending = {}],
             result |-> Some(got.item)]

\* A poll that returns a result and leaves it queued.
poll_keep_queued(L) ==
    IF L.result_rx = <<>>
    THEN [loader |-> L, result |-> None]
    ELSE LET got == IF L.target = "native" THEN try_recv(L.result_rx) ELSE vec_pop(L.result_rx)
         IN [loader |-> [L EXCEPT !.pending = @ \ {got.item.tile_id}],
             result |-> Some(got.item)]

\* A poll that returns a result and leaves its tile pending.
poll_keep_pending(L) ==
    IF L.result_rx = <<>>
    THEN [loader |-> L, result |-> None]
    ELSE LET got == IF L.target = "native" THEN try_recv(L.result_rx) ELSE vec_pop(L.result_rx)
         IN [loader |-> [L EXCEPT !.result_rx = got.rest],
             result |-> Some(got.item)]

\* A poll that returns the next queued result and leaves it queued.
poll_peek(L) ==
    IF L.result_rx = <<>>
    THEN [loader |-> L, result |-> None]
    ELSE LET got == IF L.target = "native" THEN try_recv(L.result_rx) ELSE vec_pop(L.result_rx)
         IN [loader |-> [L EXCEPT !.pending = @ \ {got.item.tile_id}],
             result |-> Some(got.item)]

\* A poll that gives the pending tiles up when no result is queued.
poll_timeout(L) ==
    IF L.result_rx = <<>>
    THEN [loader |-> [L EXCEPT !.pending = {}], result |-> None]
    ELSE LET got == IF L.target = "native" THEN try_recv(L.result_rx) ELSE vec_pop(L.result_rx)
         IN [loader |-> [L EXCEPT !.result_rx = got.rest, !.pending = @ \ {got.item.tile_id}],
             result |-> Some(got.item)]

\* TileLoader::poll: the loader after the call and the value returned.
poll(L) ==
    IF L.result_rx = <<>>
    THEN [loader |-> L, result |-> None]
    ELSE LET got == IF L.target = "native" THEN try_recv(L.result_rx) ELSE vec_pop(L.result_rx)
         IN [loader |-> [L EXCEPT !.result_rx = got.rest, !.pending = @ \ {got.item.tile_id}],
             result |-> Some(got.item)]

\* A clear_pending that also throws the queued results away.
clear_pending_drop_results(L) == [L EXCEPT !.pending = {}, !.result_rx = <<>>]

\* TileLoader::clear_pending
clear_pending(L) == [L EXCEPT !.pending = {}]

\* A worker that takes the newest request off the channel.
worker_recv_newest(L) ==
    [L EXCEPT !.worker = <<L.request_tx[Len(L.request_tx)]>>,
              !.request_tx = SubSeq(@, 1, Len(@) - 1)]

\* worker_thread, `while let Ok(request) = request_rx.recv()`: the idle
\* worker takes the oldest request off the channel.
worker_recv(L) == [L EXCEPT !.worker = <<Head(L.request_tx)>>, !.request_tx = Tail(@)]

\* worker_thread, the blocking fetch has ended with `outcome` and
\* result_tx.send(result) publishes it.
worker_send(L, outcome) ==
    [L EXCEPT !.result_rx = Append(@, TileLoadResult(outcome, L.worker[1])),
              !.worker = <<>>]

\* spawn_wasm_fetch, the end of the task: results.push(tile_result).
wasm_task_done(L, task, outcome) ==
    [L EXCEPT !.result_rx = Append(@, TileLoadResult(outcome, task)),
              !.tasks = @ \ {task}]

(***************************************************************************)
(* cache.rs                                                                *)
(*                                                                         *)
(* tiles is the HashMap as a function from the resident tile ids to their  *)
(* CachedTile; of a CachedTile the cache reads memory_size only.           *)
(***************************************************************************)
CachedTile(memory_size) == [memory_size |-> memory_size]

\* HashMap::new
EmptyMap == [x \in {} |-> None]

\* TileCache::new
TileCache_new(max_tiles, max_memory) ==
    [ tiles          |-> EmptyMap,
      access_order   |-> <<>>,
      max_tiles      |-> max_tiles,
      current_memory |-> 0,
      max_memory     |-> max_memory ]

\* HashMap::remove, Vec::retain(|id| id != tile_id), Vec::remove(pos)
MapRemove(m, k) == [x \in (DOMAIN m) \ {k} |-> m[x]]
MapInsert(m, k, v) == [x \in (DOMAIN m) \cup {k} |-> IF x = k THEN v ELSE m[x]]
Retain(q, k) == SelectSeq(q, LAMBDA id : id # k)
VecRemove(q, pos) == SubSeq(q, 1, pos - 1) \o SubSeq(q, pos + 1, Len(q))

contains(C, tile_id) == tile_id \in DOMAIN C.tiles

\* An update_access_order that swaps tile_id with the last key.
update_access_order_swap(C, tile_id) ==
    LET found == { i \in 1..Len(C.access_order) : C.access_order[i] = tile_id } IN
    IF found # {}
    THEN LET pos == CHOOSE i \in found : \A j \in found : i <= j
             n == Len(C.access_order)
         IN [C EXCEPT !.access_order =
                 [i \in 1..n |-> IF i = pos THEN @[n] ELSE IF i = n THEN @[pos] ELSE @[i]]]
    ELSE C

\* TileCache::update_access_order: the first position of tile_id moves to the end.
update_access_order(C, tile_id) ==
    LET found == { i \in 1..Len(C.access_order) : C.access_order[i] = tile_id } IN
    IF found # {}
    THEN LET pos == CHOOSE i \in found : \A j \in found : i <= j
         IN [C EXCEPT !.access_order = Append(VecRemove(@, pos), tile_id)]
    ELSE C

\* A get that reads without updating the access order.
get_no_touch(C, tile_id) ==
    IF tile_id \in DOMAIN C.tiles
    THEN [cache |-> C, result |-> Some(C.tiles[tile_id])]
    ELSE [cache |-> C, result |-> None]

\* TileCache::get
get(C, tile_id) ==
    IF tile_id \in DOMAIN C.tiles
    THEN [cache |-> update_access_order(C, tile_id), result |-> Some(C.tiles[tile_id])]
    ELSE [cache |-> C, result |-> None]

\* TileCache::peek
peek(C, tile_id) == IF tile_id \in DOMAIN C.tiles THEN Some(C.tiles[tile_id]) ELSE None

\* A should_evict that lets the cache reach max_tiles + 1 entries.
should_evict_strict(C, new_tile_memory) ==
    /\ DOMAIN C.tiles # {}
    /\ \/ Cardinality(DOMAIN C.tiles) > C.max_tiles
       \/ C.current_memory + new_tile_memory > C.max_memory

\* A should_evict that looks at the memory budget only.
should_evict_memory_only(C, new_tile_memory) ==
    /\ DOMAIN C.tiles # {}
    /\ C.current_memory + new_tile_memory > C.max_memory

\* TileCache::should_evict
should_evict(C, new_tile_memory) ==
    /\ DOMAIN C.tiles # {}
    /\ \/ Cardinality(DOMAIN C.tiles) >= C.max_tiles
       \/ C.current_memory + new_tile_memory > C.max_memory

\* An evict_oldest that leaves the memory total as it was.
evict_oldest_keep_memory(C) ==
    IF C.access_order # <<>> /\ C.access_order[1] \in DOMAIN C.tiles
    THEN [cache |-> [C EXCEPT !.tiles = MapRemove(@, C.access_order[1]),
                              !.access_order = VecRemove(@, 1)],
          ok |-> TRUE]
    ELSE [cache |-> C, ok |-> FALSE]

\* TileCache::evict_oldest: the cache after the call and the value returned.
evict_oldest(C) ==
    IF C.access_order # <<>> /\ C.access_order[1] \in DOMAIN C.tiles
    THEN [cache |-> [C EXCEPT !.current_memory = @ - C.tiles[C.access_order[1]].memory_size,
                              !.tiles = MapRemove(@, C.access_order[1]),
                              !.access_order = VecRemove(@, 1)],
          ok |-> TRUE]
    ELSE [cache |-> C, ok |-> FALSE]

\* An eviction that takes out one entry at most.
evict_once(C, memory_size) ==
    IF should_evict(C, memory_size) THEN evict_oldest(C).cache ELSE C

\* TileCache::insert, `while self.should_evict(memory_size) { if !self.evict_oldest() { break; } }`
RECURSIVE evict_loop(_, _)
evict_loop(C, memory_size) ==
    IF should_evict(C, memory_size)
    THEN LET e == evict_oldest(C)
         IN IF e.ok THEN evict_loop(e.cache, memory_size) ELSE C
    ELSE C

\* An insert that turns away an entry larger than max_memory.
insert_reject_oversized(C, tile_id, tile) ==
    IF tile.memory_size > C.max_memory THEN C
    ELSE LET E == evict_loop(C, tile.memory_size)
             R == IF tile_id \in DOMAIN E.tiles
                  THEN [E EXCEPT !.current_memory = @ - E.tiles[tile_id].memory_size,
                                 !.tiles = MapRemove(@, tile_id),
                                 !.access_order = Retain(@, tile_id)]
                  ELSE E
         IN [R EXCEPT !.current_memory = @ + tile.memory_size,
                      !.tiles = MapInsert(@, tile_id, tile),
                      !.access_order = Append(@, tile_id)]

\* An insert that keeps the old entry's memory_size in the total.
insert_keep_old_memory(C, tile_id, tile) ==
    LET E == evict_loop(C, tile.memory_size)
        R == IF tile_id \in DOMAIN E.tiles
             THEN [E EXCEPT !.tiles = MapRemove(@, tile_id),
                            !.access_order = Retain(@, tile_id)]
             ELSE E
    IN [R EXCEPT !.current_memory = @ + tile.memory_size,
                 !.tiles = MapInsert(@, tile_id, tile),
                 !.access_order = Append(@, tile_id)]

\* An insert that leaves the old position of a resident key in the access order.
insert_no_retain(C, tile_id, tile) ==
    LET E == evict_loop(C, tile.memory_size)
        R == IF tile_id \in DOMAIN E.tiles
             THEN [E EXCEPT !.current_memory = @ - E.tiles[tile_id].memory_size,
                            !.tiles = MapRemove(@, tile_id)]
             ELSE E
    IN [R EXCEPT !.current_memory = @ + tile.memory_size,
                 !.tiles = MapInsert(@, tile_id, tile),
                 !.access_order = Append(@, tile_id)]

\* TileCache::insert
insert(C, tile_id, tile) ==
    LET E == evict_loop(C, tile.memory_size)
        R == IF tile_id \in DOMAIN E.tiles
             THEN [E EXCEPT !.current_memory = @ - E.tiles[tile_id].memory_size,
                            !.tiles = MapRemove(@, tile_id),
                            !.access_order = Retain(@, tile_id)]
             ELSE E
    IN [R EXCEPT !.current_memory = @ + tile.memory_size,
                 !.tiles = MapInsert(@, tile_id, tile),
                 !.access_order = Append(@, tile_id)]

\* A remove that leaves the memory total as it was.
remove_keep_memory(C, tile_id) ==
    IF tile_id \in DOMAIN C.tiles
    THEN [cache |-> [C EXCEPT !.tiles = MapRemove(@, tile_id),
                              !.access_order = Retain(@, tile_id)],
          result |-> Some(C.tiles[tile_id])]
    ELSE [cache |-> C, result |-> None]

\* TileCache::remove: the cache after the call and the value returned.
remove(C, tile_id) ==
    IF tile_id \in DOMAIN C.tiles
    THEN [cache |-> [C EXCEPT !.current_memory = @ - C.tiles[tile_id].memory_size,
                              !.tiles = MapRemove(@, tile_id),
                              !.access_order = Retain(@, tile_id)],
          result |-> Some(C.tiles[tile_id])]
    ELSE [cache |-> C, result |-> None]

\* TileCache::clear
clear(C) == [C EXCEPT !.tiles = EmptyMap, !.access_order = <<>>, !.current_memory = 0]

\* TileCache::stats
stats(C) ==
    [ tile_count  |-> Cardinality(DOMAIN C.tiles),
      max_tiles   |-> C.max_tiles,
      memory_used |-> C.current_memory,
      max_memory  |-> C.max_memory ]

(***************************************************************************)
(* renderer.rs                                                             *)
(***************************************************************************)
\* TileRenderer::render: one draw, with the entry that peek returns, for
\* every tile of the render list that the cache holds.
RECURSIVE render(_, _)
render(tiles, C) ==
    IF tiles = <<>> THEN <<>>
    ELSE LET cached == peek(C, Head(tiles)) IN
         (IF cached # None THEN << <<Head(tiles), cached[1]>> >> ELSE <<>>)
             \o render(Tail(tiles), C)

(***************************************************************************)
(* camera.rs                                                               *)
(*                                                                         *)
(* A zoom is a whole number of units of 1/2000 of a zoom level, so that    *)
(* the threshold 0.001 of zoom_at is 2 units.                              *)
(***************************************************************************)
TILE_SIZE == 256
ZoomUnits == 2000
HalfLevel == ZoomUnits \div 2
MaxZoom == MaxZoomLevel * ZoomUnits
ZoomEpsilon == 2

\* MapCamera::new
MapCamera_new(lon, lat, zoom, width, height) ==
    [ center          |-> <<normalize_longitude(lon), clamp_latitude(lat)>>,
      zoom            |-> Clamp(zoom, 0, MaxZoom),
      viewport_width  |-> width,
      viewport_height |-> height ]

\* MapCamera::set_viewport
set_viewport(C, width, height) ==
    [C EXCEPT !.viewport_width = width, !.viewport_height = height]

\* MapCamera::tile_zoom: self.zoom.floor() as u8
tile_zoom(C) == C.zoom \div ZoomUnits

\* MapCamera::zoom_scale: 2^(zoom - floor(zoom)) in thousandths, for a zoom
\* at a whole level or half way between two.
zoom_scale(C) ==
    CASE C.zoom % ZoomUnits = 0         -> 1000
      [] C.zoom % ZoomUnits = HalfLevel -> 1414

\* MapCamera::pan, given the values that its locals lon_delta and lat_delta
\* take for the pixel deltas passed.
pan(C, lon_delta, lat_delta) ==
    [C EXCEPT !.center = << normalize_longitude(C.center[1] - lon_delta),
                            clamp_latitude(C.center[2] + lat_delta) >>]

\* |a|
Abs(a) == IF a < 0 THEN -a ELSE a

\* MapCamera::zoom_at, given the values that its locals lon_delta and
\* lat_delta take for the screen point passed.
zoom_at(C, delta, lon_delta, lat_delta) ==
    LET old_zoom == C.zoom
        Z == [C EXCEPT !.zoom = Clamp(C.zoom + delta, 0, MaxZoom)]
    IN IF Abs(Z.zoom - old_zoom) < ZoomEpsilon
       THEN Z
       ELSE [Z EXCEPT !.center = << normalize_longitude(Z.center[1] + lon_delta),
                                    clamp_latitude(Z.center[2] - lat_delta) >>]

\* The pixels that the whole turn of 360 degrees of longitude spans at the
\* zoom of C, a whole level: TILE_SIZE * 2^zoom.
PixelsPerTurn(C) == TILE_SIZE * Pow2(C.zoom \div ZoomUnits)

\* pixels * meters_per_pixel / (111320.0 * cos_lat), the longitude that
\* num/den pixels span, in longitude units. meters_per_pixel is
\* 40075016.686 * cos(lat) / (TILE_SIZE * 2^zoom) at the zoom that C holds
\* when it is called; the cosine cancels (cos_lat is above 0.01 at every
\* latitude the camera holds) and 40075016.686 / 111320 is taken as 360.
lon_of_pixels(C, num, den) == (num * Turn) \div (den * PixelsPerTurn(C))

\* The quotient above is exact.
LonExact(C, num, den) ==
    /\ C.zoom % ZoomUnits = 0
    /\ (num * Turn) % (den * PixelsPerTurn(C)) = 0

\* pixels * meters_per_pixel / 111320.0, the latitude that pixels span, for
\* no pixels: a point on the horizontal centre line of the viewport.
lat_of_pixels(C, pixels) == CASE pixels = 0 -> 0

\* MapCamera::screen_to_world, for a viewport of even width and height.
screen_to_world(C, screen_x, screen_y) ==
    LET offset_x == screen_x - (C.viewport_width \div 2)
        offset_y == screen_y - (C.viewport_height \div 2)
        lon_delta == lon_of_pixels(C, offset_x, 1)
        lat_delta == lat_of_pixels(C, offset_y)
    IN << normalize_longitude(C.center[1] + lon_delta),
          clamp_latitude(C.center[2] - lat_delta) >>

\* 1.0 - 1.0 / scale_change as the fraction num/den, for a zoom change of d
\* whole levels: scale_change is 2^d.
ScaleOffset(d) ==
    IF d >= 0 THEN [num |-> Pow2(d) - 1, den |-> Pow2(d)]
    ELSE [num |-> 1 - Pow2(-d), den |-> 1]

\* MapCamera::zoom_at from the screen point passed: the locals lon_delta and
\* lat_delta are computed by meters_per_pixel() on the camera that already
\* holds the new zoom (camera.rs:73 comes before camera.rs:89).
zoom_at_screen(C, delta, screen_x, screen_y) ==
    LET old_zoom == C.zoom
        Z == [C EXCEPT !.zoom = Clamp(C.zoom + delta, 0, MaxZoom)]
        offset_x == screen_x - (C.viewport_width \div 2)
        offset_y == screen_y - (C.viewport_height \div 2)
        f == ScaleOffset((Z.zoom - old_zoom) \div ZoomUnits)
        lon_delta == lon_of_pixels(Z, offset_x * f.num, f.den)
        lat_delta == lat_of_pixels(Z, offset_y * f.num)
    IN zoom_at(C, delta, lon_delta, lat_delta)

\* The locals of zoom_at_screen are exact in the units of the model.
ZoomAtExact(C, delta, screen_x, screen_y) ==
    LET Z == [C EXCEPT !.zoom = Clamp(C.zoom + delta, 0, MaxZoom)]
        f == ScaleOffset((Z.zoom - C.zoom) \div ZoomUnits)
    IN /\ C.zoom % ZoomUnits = 0
       /\ delta % ZoomUnits = 0
       /\ screen_y = C.viewport_height \div 2
       /\ LonExact(Z, (screen_x - (C.viewport_width \div 2)) * f.num, f.den)

\* A zoom_by that stores the sum as it is.
zoom_by_unclamped(C, delta) == [C EXCEPT !.zoom = C.zoom + delta]

\* MapCamera::zoom_by
zoom_by(C, delta) == [C EXCEPT !.zoom = Clamp(C.zoom + delta, 0, MaxZoom)]

\* MapSystem::set_center
set_center(C, lon, lat) ==
    [C EXCEPT !.center = <<normalize_longitude(lon), clamp_latitude(lat)>>]

\* MapSystem::set_zoom
set_zoom(C, zoom) == [C EXCEPT !.zoom = Clamp(zoom, 0, MaxZoom)]

\* The rows of visible_tiles_with_buffer from ty to max_y, one after the
\* other: `for ty in min_y..=max_y { if !is_valid_tile_y(ty, z) { continue; }
\* for tx in min_x..=max_x { tiles.push(...) } }`.
RECURSIVE TileRows(_, _, _, _, _)
TileRows(ty, max_y, min_x, max_x, z) ==
    IF ty > max_y THEN <<>>
    ELSE (IF is_valid_tile_y(ty, z)
          THEN [i \in 1..(max_x - min_x + 1) |-> TileId(wrap_tile_x(min_x + i - 1, z), ty, z)]
          ELSE <<>>)
         \o TileRows(ty + 1, max_y, min_x, max_x, z)

\* MapCamera::visible_tiles_with_buffer. The sizes are in thousandths of a
\* pixel.
visible_tiles_with_buffer(C, buffer) ==
    LET z == tile_zoom(C)
        scaled_tile_size == TILE_SIZE * zoom_scale(C)
        c == lon_lat_to_tile_f64(C.center[1], C.center[2], z)
        tiles_x == CeilDiv(C.viewport_width * 1000, scaled_tile_size) + 1
        tiles_y == CeilDiv(C.viewport_height * 1000, scaled_tile_size) + 1
        half_tiles_x == (tiles_x \div 2) + buffer
        half_tiles_y == (tiles_y \div 2) + buffer
        min_x == c.x_floor - half_tiles_x
        max_x == c.x_ceil + half_tiles_x
        min_y == c.y_floor - half_tiles_y
        max_y == c.y_ceil + half_tiles_y
    IN TileRows(min_y, max_y, min_x, max_x, z)

\* MapCamera::visible_tiles
visible_tiles(C) == visible_tiles_with_buffer(C, 1)

(***************************************************************************)
(* The loader driven by its caller and by its fetch-execution context.     *)
(***************************************************************************)
\* A call on the loader: `again` says that it is a request and that the call
\* before it was a request for the same tile.
Call(op, arg, ret) ==
    [op |-> op, arg |-> arg, ret |-> ret,
     again |-> (op = "request" /\ lastCall.op = op /\ lastCall.arg = arg)]

\* The fetches a call started: requests put on the channel or tasks spawned.
NewFetches(L, L2) ==
    (Len(L2.request_tx) - Len(L.request_tx)) + (Cardinality(L2.tasks) - Cardinality(L.tasks))

InitHistory ==
    /\ dispatched = <<>>
    /\ returned = {}
    /\ lastCall = [op |-> "new", arg |-> None, ret |-> None, again |-> FALSE]
    /\ cleared = FALSE

InitLoader ==
    /\ loader \in { TileLoader_new(t) : t \in Targets }
    /\ mirror = None
    /\ mirrorRet = None
    /\ InitHistory

\* A call on the cache: `hit` says that the key was resident when the call
\* was made (for a render, that a tile was drawn), `pos` is where a get or a
\* remove found the key in the access order, and `evicted` is the number of
\* entries the eviction loop of an insert took out.
CacheCall(op, hit, pos, evicted) == [op |-> op, hit |-> hit, pos |-> pos, evicted |-> evicted]

\* No call recorded: the value of the history before the first call it keeps.
NoCall == CacheCall("none", FALSE, 0, 0)

InitCacheIdle ==
    /\ cache = None
    /\ inserted = <<>>
    /\ touched = <<>>
    /\ plain = TRUE
    /\ cacheCall = NoCall

InitCameraIdle ==
    /\ camera = None
    /\ cameraCall = None

InitTileIdle == tileCall = None

InitSystemIdle ==
    /\ render_tiles = None
    /\ frame = None

InitWasmIdle == wasm = None

InitLoaderIdle ==
    /\ loader = None
    /\ mirror = None
    /\ mirrorRet = None
    /\ InitHistory

\* The caller calls request(tile_id).
Request(tile_id) ==
    LET L2 == request(loader, tile_id, Len(dispatched) + 1) IN
    /\ NewFetches(loader, L2) > 0 => Len(dispatched) < MaxFetches
    /\ loader' = L2
    /\ dispatched' = IF NewFetches(loader, L2) > 0 THEN Append(dispatched, tile_id) ELSE dispatched
    /\ lastCall' = Call("request", Some(tile_id), None)
    /\ UNCHANGED <<mirror, returned, mirrorRet, cleared>>
    /\ UNCHANGED <<cacheVars, cameraVars, tileVars, systemVars, wasmVars>>

\* The caller calls poll().
Poll ==
    LET got == poll(loader) IN
    /\ loader' = got.loader
    /\ returned' = IF got.result = None THEN returned ELSE returned \cup {got.result[1].fid}
    /\ lastCall' = Call("poll", None, got.result)
    /\ UNCHANGED <<mirror, dispatched, mirrorRet, cleared>>
    /\ UNCHANGED <<cacheVars, cameraVars, tileVars, systemVars, wasmVars>>

\* The caller calls clear_pending().
ClearPending ==
    /\ loader' = clear_pending(loader)
    /\ cleared' = (cleared \/ loader.pending # {})
    /\ lastCall' = Call("clear_pending", None, None)
    /\ UNCHANGED <<mirror, dispatched, returned, mirrorRet>>
    /\ UNCHANGED <<cacheVars, cameraVars, tileVars, systemVars, wasmVars>>

\* The native worker thread returns from request_rx.recv().
WorkerRecv ==
    /\ loader.target = "native"
    /\ loader.worker = <<>>
    /\ loader.request_tx # <<>>
    /\ loader' = worker_recv(loader)
    /\ UNCHANGED <<mirror, dispatched, returned, lastCall, mirrorRet, cleared>>
    /\ UNCHANGED <<cacheVars, cameraVars, tileVars, systemVars, wasmVars>>

\* The native worker's fetch ends and it sends the result. A fetch that
\* hangs is a behaviour in which this step is never taken.
WorkerSend(outcome) ==
    /\ loader.target = "native"
    /\ loader.worker # <<>>
    /\ loader' = worker_send(loader, outcome)
    /\ UNCHANGED <<mirror, dispatched, returned, lastCall, mirrorRet, cleared>>
    /\ UNCHANGED <<cacheVars, cameraVars, tileVars, systemVars, wasmVars>>

\* One wasm32 task's fetch ends and it pushes the result; the tasks end in
\* any order.
WasmTaskDone(task, outcome) ==
    /\ loader.target = "wasm32"
    /\ task \in loader.tasks
    /\ loader' = wasm_task_done(loader, task, outcome)
    /\ UNCHANGED <<mirror, dispatched, returned, lastCall, mirrorRet, cleared>>
    /\ UNCHANGED <<cacheVars, cameraVars, tileVars, systemVars, wasmVars>>

\* Every request a caller can have made.
AllRequests == { TileRequest(k, f) : k \in Keys, f \in 1..MaxFetches }

Init ==
    /\ InitLoader
    /\ InitCacheIdle
    /\ InitCameraIdle
    /\ InitTileIdle
    /\ InitSystemIdle
    /\ InitWasmIdle

Next ==
    \/ \E k \in Keys : Request(k)
    \/ Poll
    \/ ClearPending
    \/ WorkerRecv
    \/ \E o \in FetchOutcomes : WorkerSend(o)
    \/ \E t \in AllRequests, o \in FetchOutcomes : WasmTaskDone(t, o)

Spec == Init /\ [][Next]_vars

(***************************************************************************)
(* The two targets side by side: `loader` is built for native, `mirror`    *)
(* for wasm32. Both receive the same calls, and every fetch outcome is     *)
(* delivered to both at once, in the order the native worker produces them.*)
(***************************************************************************)
InitPair ==
    /\ loader = TileLoader_new("native")
    /\ mirror = TileLoader_new("wasm32")
    /\ mirrorRet = None
    /\ InitHistory
    /\ InitCacheIdle
    /\ InitCameraIdle
    /\ InitTileIdle
    /\ InitSystemIdle
    /\ InitWasmIdle

PairRequest(tile_id) ==
    LET fid == Len(dispatched) + 1
        L2 == request(loader, tile_id, fid)
        M2 == request(mirror, tile_id, fid)
    IN
    /\ NewFetches(loader, L2) + NewFetches(mirror, M2) > 0 => Len(dispatched) < MaxFetches
    /\ loader' = L2
    /\ mirror' = M2
    /\ dispatched' = IF NewFetches(loader, L2) + NewFetches(mirror, M2) > 0
                     THEN Append(dispatched, tile_id) ELSE dispatched
    /\ lastCall' = Call("request", Some(tile_id), None)
    /\ mirrorRet' = None
    /\ UNCHANGED <<returned, cleared>>
    /\ UNCHANGED <<cacheVars, cameraVars, tileVars, systemVars, wasmVars>>

PairPoll ==
    LET got == poll(loader)
        mgot == poll(mirror)
    IN
    /\ loader' = got.loader
    /\ mirror' = mgot.loader
    /\ returned' = IF got.result = None THEN returned ELSE returned \cup {got.result[1].fid}
    /\ lastCall' = Call("poll", None, got.result)
    /\ mirrorRet' = mgot.result
    /\ UNCHANGED <<dispatched, cleared>>
    /\ UNCHANGED <<cacheVars, cameraVars, tileVars, systemVars, wasmVars>>

PairClearPending ==
    /\ loader' = clear_pending(loader)
    /\ mirror' = clear_pending(mirror)
    /\ cleared' = (cleared \/ loader.pending # {})
    /\ lastCall' = Call("clear_pending", None, None)
    /\ mirrorRet' = None
    /\ UNCHANGED <<dispatched, returned>>
    /\ UNCHANGED <<cacheVars, cameraVars, tileVars, systemVars, wasmVars>>

PairWorkerRecv ==
    /\ loader.worker = <<>>
    /\ loader.request_tx # <<>>
    /\ loader' = worker_recv(loader)
    /\ UNCHANGED <<mirror, dispatched, returned, lastCall, mirrorRet, cleared>>
    /\ UNCHANGED <<cacheVars, cameraVars, tileVars, systemVars, wasmVars>>

\* The fetch the native worker is running ends with `outcome`, and so does
\* the wasm32 task of the same request.
PairDeliver(outcome) ==
    /\ loader.worker # <<>>
    /\ loader.worker[1] \in mirror.tasks
    /\ loader' = worker_send(loader, outcome)
    /\ mirror' = wasm_task_done(mirror, loader.worker[1], outcome)
    /\ UNCHANGED <<dispatched, returned, lastCall, mirrorRet, cleared>>
    /\ UNCHANGED <<cacheVars, cameraVars, tileVars, systemVars, wasmVars>>

NextPair ==
    \/ \E k \in Keys : PairRequest(k)
    \/ PairPoll
    \/ PairClearPending
    \/ PairWorkerRecv
    \/ \E o \in FetchOutcomes : PairDeliver(o)

SpecPair == InitPair /\ [][NextPair]_vars

(***************************************************************************)
(* Properties of the loader.                                               *)
(***************************************************************************)
Range(q) == { q[i] : i \in 1..Len(q) }

Fids == 1..Len(dispatched)

\* The fetches of tile_id that were dispatched and that poll has not returned.
Outstanding(tile_id) == { f \in Fids : dispatched[f] = tile_id /\ f \notin returned }

\* The fetch whose request put tile_id into pending most recently.
LastDispatch(tile_id) ==
    LET fs == { f \in Fids : dispatched[f] = tile_id }
    IN CHOOSE f \in fs : \A g \in fs : g <= f

\* The number of places fetch f is in: waiting on the request channel, being
\* fetched by the worker, running as a task, queued as a result, or returned.
Places(f) ==
    Cardinality({ i \in 1..Len(loader.request_tx) : loader.request_tx[i].fid = f })
    + Cardinality({ i \in 1..Len(loader.worker) : loader.worker[i].fid = f })
    + Cardinality({ t \in loader.tasks : t.fid = f })
    + Cardinality({ i \in 1..Len(loader.result_rx) : loader.result_rx[i].fid = f })
    + (IF f \in returned THEN 1 ELSE 0)

\* The fetches whose result is queued for poll.
Queued == { loader.result_rx[i].fid : i \in 1..Len(loader.result_rx) }

\* Every dispatched fetch is in exactly one place: a completed fetch has its
\* result queued once until poll returns it, and poll, which takes what it
\* returns out of the queue, cannot return it a second time.
DeliveredOnce ==
    /\ \A f \in Fids : Places(f) = 1
    /\ returned \cup Queued \subseteq Fids

AtMostOneOutstanding == \A k \in Keys : Cardinality(Outstanding(k)) <= 1

\* C1 as stated: in every interleaving of request, clear_pending, fetch
\* completion and poll, no tile has two outstanding fetches, and every
\* completed fetch has its result returned by poll exactly once.
C1_OneOutstandingAlways == AtMostOneOutstanding /\ DeliveredOnce

\* C1, amended: as long as clear_pending has not been called while a tile
\* was pending, no tile has two outstanding fetches; with or without
\* clear_pending, every completed fetch has its result queued until poll
\* returns it, and poll returns it once.
C1_OneOutstanding ==
    /\ ~cleared => AtMostOneOutstanding
    /\ DeliveredOnce

\* A tile was fetched, polled, requested again, and has one fetch outstanding.
C1_Witness ==
    /\ ~cleared
    /\ \E k \in Keys :
          /\ Cardinality(Outstanding(k)) = 1
          /\ \E f \in returned : dispatched[f] = k

\* C2: request(K) called twice in a row dispatches one fetch: the first call,
\* when K is not pending, starts exactly one fetch and marks K pending in the
\* same step, before any result of it exists; at the second call K is still
\* pending, and a call for a pending K changes neither the request queue nor
\* the pending set nor anything else of the loader.
C2_RequestDedup ==
    [][ \A k \in Keys :
          Request(k) =>
             /\ (k \notin loader.pending) =>
                   /\ loader'.pending = loader.pending \cup {k}
                   /\ NewFetches(loader, loader') = 1
                   /\ dispatched' = Append(dispatched, k)
                   /\ Len(dispatched') \notin Queued' \cup returned'
                   /\ loader'.result_rx = loader.result_rx
             /\ (lastCall.op = "request" /\ lastCall.arg = Some(k)) =>
                   /\ k \in loader.pending
                   /\ ~cleared => Cardinality(Outstanding(k)) = 1
             /\ (k \in loader.pending) =>
                   /\ loader' = loader
                   /\ dispatched' = dispatched
      ]_vars

\* request(K) was called twice in a row; K is pending with its one fetch.
C2_Witness ==
    /\ lastCall.op = "request"
    /\ lastCall.again
    /\ \E k \in Keys :
          /\ lastCall.arg = Some(k)
          /\ k \in loader.pending
          /\ Cardinality({ f \in Fids : dispatched[f] = k }) = 1

\* C3 as stated: a tile leaves pending only in the poll that returns a result
\* for it, and that result is the one of the request that made it pending.
C3_LeavesOnlyAtOwnResult ==
    [][ \A k \in loader.pending \ loader'.pending :
          /\ lastCall'.op = "poll"
          /\ lastCall'.ret # None
          /\ lastCall'.ret[1].tile_id = k
          /\ lastCall'.ret[1].fid = LastDispatch(k)
      ]_vars

\* C3, amended: a tile leaves pending only when clear_pending empties the set
\* or in the poll that returns a result for it; poll removes no other tile;
\* and as long as clear_pending has not been called while a tile was
\* pending, the result that removes it is the one of the request that made
\* it pending.
C3_LeavesAtResultOrClear ==
    [][ \A k \in loader.pending \ loader'.pending :
          \/ /\ lastCall'.op = "clear_pending"
             /\ loader'.pending = {}
          \/ /\ lastCall'.op = "poll"
             /\ lastCall'.ret # None
             /\ lastCall'.ret[1].tile_id = k
             /\ ~cleared => lastCall'.ret[1].fid = LastDispatch(k)
      ]_vars

\* poll has just returned the result of one of two pending tiles: the other
\* is still pending.
C3_Witness ==
    /\ ~cleared
    /\ lastCall.op = "poll"
    /\ lastCall.ret # None
    /\ lastCall.ret[1].tile_id \notin loader.pending
    /\ loader.pending # {}

\* C4 as stated: the poll that returns a result for K leaves K not loading
\* and pending_count one lower, and a request(K) right after it dispatches.
C4_PollDropsCountByOne ==
    /\ [][ Poll /\ lastCall'.ret # None =>
             /\ ~is_loading(loader', lastCall'.ret[1].tile_id)
             /\ pending_count(loader') = pending_count(loader) - 1
         ]_vars
    /\ [][ \A k \in Keys :
             (Request(k) /\ lastCall.op = "poll" /\ lastCall.ret # None
                         /\ lastCall.ret[1].tile_id = k) =>
                /\ is_loading(loader', k)
                /\ NewFetches(loader, loader') = 1
         ]_vars

\* C4, amended: the poll that returns a result for K leaves K not loading;
\* pending_count drops by one when K was pending before the poll, which it
\* always is while clear_pending has not been called with a tile pending,
\* and is unchanged when K was not; a request(K) right after that poll
\* dispatches a fetch and marks K pending again.
C4_PollReleasesKey ==
    /\ [][ Poll /\ lastCall'.ret # None =>
             /\ ~is_loading(loader', lastCall'.ret[1].tile_id)
             /\ pending_count(loader') =
                   pending_count(loader)
                   - (IF is_loading(loader, lastCall'.ret[1].tile_id) THEN 1 ELSE 0)
             /\ ~cleared => is_loading(loader, lastCall'.ret[1].tile_id)
         ]_vars
    /\ [][ \A k \in Keys :
             (Request(k) /\ lastCall.op = "poll" /\ lastCall.ret # None
                         /\ lastCall.ret[1].tile_id = k) =>
                /\ is_loading(loader', k)
                /\ NewFetches(loader, loader') = 1
         ]_vars

\* A tile's result was polled and the request right after the poll was
\* accepted: it is pending again with a second fetch.
C4_Witness ==
    /\ lastCall.op = "request"
    /\ \E k \in Keys :
          /\ lastCall.arg = Some(k)
          /\ is_loading(loader, k)
          /\ \E f \in returned : dispatched[f] = k /\ f < LastDispatch(k)
          /\ LastDispatch(k) \notin returned

\* q without its i-th element.
RemoveAt(q, i) == SubSeq(q, 1, i - 1) \o SubSeq(q, i + 1, Len(q))

\* C5: poll never waits and returns at most one result: with no result
\* queued it returns None and changes nothing; otherwise it returns exactly
\* one queued result, takes that one out of the queue, removes its tile and
\* no other from pending, and leaves every other result queued.
C5_PollOneResult ==
    /\ [](ENABLED Poll)
    /\ [][ Poll =>
             IF loader.result_rx = <<>>
             THEN lastCall'.ret = None /\ loader' = loader /\ returned' = returned
             ELSE \E i \in 1..Len(loader.result_rx) :
                     /\ lastCall'.ret = Some(loader.result_rx[i])
                     /\ loader' = [loader EXCEPT
                                      !.result_rx = RemoveAt(loader.result_rx, i),
                                      !.pending = @ \ {loader.result_rx[i].tile_id}]
         ]_vars

\* poll has returned one result while two were queued and two tiles pending.
C5_Witness ==
    /\ lastCall.op = "poll"
    /\ lastCall.ret # None
    /\ loader.result_rx # <<>>
    /\ loader.pending # {}
    /\ lastCall.ret[1].tile_id \notin loader.pending

\* C6: on both targets poll returns the results in the order they were
\* published. Both targets publish by appending to result_rx (send, push),
\* so of two queued results the one at the lower index was published first:
\* the result a poll returns has no queued result before it.
C6_ArrivalOrder ==
    [][ Poll /\ lastCall'.ret # None =>
          \E i \in 1..Len(loader.result_rx) :
             /\ loader.result_rx[i] = lastCall'.ret[1]
             /\ \A j \in 1..Len(loader.result_rx) : i <= j
      ]_vars

Observable(ret) == IF ret = None THEN None ELSE Some(<<ret[1].kind, ret[1].tile_id>>)

\* C8: given the same calls and the same fetch outcomes in the same order,
\* the two targets show the same pending set after every call and return
\* the same result from every poll.
C8_TargetsAgree ==
    /\ loader.pending = mirror.pending
    /\ lastCall.op = "poll" => Observable(lastCall.ret) = Observable(mirrorRet)

(***************************************************************************)
(* The cache driven by its caller. The budgets are chosen when the cache   *)
(* is built; the memory budgets go up to the size of two largest tiles.    *)
(***************************************************************************)
TileBudgets == 0..MaxTilesChoice
MemoryBudgets == 0..(2 * MaxTileMem)
TileSizes == 1..MaxTileMem

\* The render lists a frame can hand to the renderer: no tile, one tile, or
\* the first key and one more.
RenderLists ==
    {<<>>} \cup { <<a>> : a \in CacheKeys }
           \cup { <<TileId(0, 0, MaxZoomLevel), b>> : b \in CacheKeys }

\* q with k moved to (or put at) the end.
Touch(q, k) == Append(Retain(q, k), k)

\* The position of k in q, 0 when k is not in q.
Position(q, k) ==
    LET found == { i \in 1..Len(q) : q[i] = k } IN
    IF found = {} THEN 0 ELSE CHOOSE i \in found : \A j \in found : i <= j

\* The number of entries the eviction loop of insert takes out of C.
Evicted(C, memory_size) == Len(C.access_order) - Len(evict_loop(C, memory_size).access_order)

InitCache ==
    /\ cache \in { TileCache_new(n, m) : n \in TileBudgets, m \in MemoryBudgets }
    /\ inserted = <<>>
    /\ touched = <<>>
    /\ plain = TRUE
    /\ cacheCall = NoCall
    /\ InitLoaderIdle
    /\ InitCameraIdle
    /\ InitTileIdle
    /\ InitSystemIdle
    /\ InitWasmIdle

\* The histories of the keys inserted and touched stop once a call other
\* than an insert of a new key or a read has been made; the history of the
\* most recent call is kept from that call on.
Recorded(p, call) == IF p THEN NoCall ELSE call

Mixed ==
    /\ plain' = FALSE
    /\ inserted' = <<>>
    /\ touched' = <<>>

CacheInsert(tile_id, memory_size) ==
    /\ cache' = insert(cache, tile_id, CachedTile(memory_size))
    /\ IF plain /\ tile_id \notin { touched[i] : i \in 1..Len(touched) }
       THEN /\ plain' = TRUE
            /\ inserted' = Append(inserted, tile_id)
            /\ touched' = Append(touched, tile_id)
       ELSE Mixed
    /\ cacheCall' = Recorded(plain', CacheCall("insert", contains(cache, tile_id), 0,
                                                Evicted(cache, memory_size)))
    /\ UNCHANGED <<loaderVars, cameraVars, tileVars, systemVars, wasmVars>>

CacheGet(tile_id) ==
    /\ cache' = get(cache, tile_id).cache
    /\ touched' = IF plain /\ get(cache, tile_id).result # None
                  THEN Touch(touched, tile_id) ELSE touched
    /\ UNCHANGED <<inserted, plain>>
    /\ cacheCall' = Recorded(plain', CacheCall("get", contains(cache, tile_id),
                                                Position(cache.access_order, tile_id), 0))
    /\ UNCHANGED <<loaderVars, cameraVars, tileVars, systemVars, wasmVars>>

\* A peek that updates the access order as get does.
CachePeekTouching(tile_id) ==
    /\ cache' = get(cache, tile_id).cache
    /\ UNCHANGED <<inserted, touched, plain>>
    /\ cacheCall' = Recorded(plain', CacheCall("peek", peek(cache, tile_id) # None, 0, 0))
    /\ UNCHANGED <<loaderVars, cameraVars, tileVars, systemVars, wasmVars>>

\* peek and contains take &self: they return a value and assign nothing.
CachePeek(tile_id) ==
    /\ UNCHANGED <<cache, inserted, touched, plain>>
    /\ cacheCall' = Recorded(plain', CacheCall("peek", peek(cache, tile_id) # None, 0, 0))
    /\ UNCHANGED <<loaderVars, cameraVars, tileVars, systemVars, wasmVars>>

CacheContains(tile_id) ==
    /\ UNCHANGED <<cache, inserted, touched, plain>>
    /\ cacheCall' = Recorded(plain', CacheCall("contains", contains(cache, tile_id), 0, 0))
    /\ UNCHANGED <<loaderVars, cameraVars, tileVars, systemVars, wasmVars>>

\* TileRenderer::render takes the cache as &TileCache.
CacheRender(tiles) ==
    /\ UNCHANGED <<cache, inserted, touched, plain>>
    /\ cacheCall' = Recorded(plain', CacheCall("render", render(tiles, cache) # <<>>, 0, 0))
    /\ UNCHANGED <<loaderVars, cameraVars, tileVars, systemVars, wasmVars>>

CacheRemove(tile_id) ==
    /\ cache' = remove(cache, tile_id).cache
    /\ Mixed
    /\ cacheCall' = Recorded(plain', CacheCall("remove", contains(cache, tile_id),
                                                Position(cache.access_order, tile_id), 0))
    /\ UNCHANGED <<loaderVars, cameraVars, tileVars, systemVars, wasmVars>>

CacheClear ==
    /\ cache' = clear(cache)
    /\ Mixed
    /\ cacheCall' = Recorded(plain', CacheCall("clear", FALSE, 0, 0))
    /\ UNCHANGED <<loaderVars, cameraVars, tileVars, systemVars, wasmVars>>

NextCache ==
    \/ \E k \in CacheKeys, m \in TileSizes : CacheInsert(k, m)
    \/ \E k \in CacheKeys : CacheGet(k)
    \/ \E k \in CacheKeys : CachePeek(k)
    \/ \E k \in CacheKeys : CacheContains(k)
    \/ \E tiles \in RenderLists : CacheRender(tiles)
    \/ \E k \in CacheKeys : CacheRemove(k)
    \/ CacheClear

SpecCache == InitCache /\ [][NextCache]_vars

(***************************************************************************)
(* Properties of the cache.                                                *)
(***************************************************************************)
\* The last n elements of q, all of q when it has fewer.
LastN(q, n) == IF Len(q) <= n THEN q ELSE SubSeq(q, Len(q) - n + 1, Len(q))

\* The memory budget cannot bind under a count budget of 2: one resident
\* tile and a new one always fit.
MemoryNotBinding(C) == C.max_memory >= 2 * MaxTileMem

KeyA == TileId(0, 0, MaxZoomLevel)
KeyB == TileId(1, 0, MaxZoomLevel)
KeyC == TileId(2, 0, MaxZoomLevel)

\* C9: with max_tiles = 2 and a memory budget that does not bind, after
\* inserts of distinct keys interleaved with gets the resident keys are
\* exactly the two most recently touched ones (all of them while fewer than
\* two were touched), and the access order lists them oldest first.
C9_TwoMostRecent ==
    (plain /\ cache.max_tiles = 2 /\ MemoryNotBinding(cache)) =>
       /\ DOMAIN cache.tiles = Range(LastN(touched, 2))
       /\ cache.access_order = LastN(touched, 2)

\* insert(A); insert(B); get(A); insert(C) has left {A, C} resident.
C9_Witness ==
    /\ plain
    /\ cache.max_tiles = 2
    /\ MemoryNotBinding(cache)
    /\ inserted = <<KeyA, KeyB, KeyC>>
    /\ touched = <<KeyB, KeyA, KeyC>>
    /\ DOMAIN cache.tiles = {KeyA, KeyC}

\* C10: the access order is a permutation of the resident keys: it lists
\* every resident key once and nothing else.
C10_OrderIsPermutation ==
    /\ Range(cache.access_order) = DOMAIN cache.tiles
    /\ Len(cache.access_order) = Cardinality(DOMAIN cache.tiles)

\* After calls that include a second insert of a key, a remove or a clear,
\* two or more keys are resident and A, with the largest size, is the newest.
C10_Witness ==
    /\ ~plain
    /\ Len(cache.access_order) >= 2
    /\ cache.access_order[Len(cache.access_order)] = KeyA
    /\ cache.tiles[KeyA].memory_size = MaxTileMem

\* The sum of memory_size over the entries of `tiles` under `keys`.
RECURSIVE SumSizes(_, _)
SumSizes(tiles, keys) ==
    IF keys = {} THEN 0
    ELSE LET k == CHOOSE x \in keys : TRUE
         IN tiles[k].memory_size + SumSizes(tiles, keys \ {k})

ResidentMemory(C) == SumSizes(C.tiles, DOMAIN C.tiles)

\* C11: after any sequence of calls, stats().memory_used is the sum of
\* memory_size over the resident entries and stats().tile_count is the
\* number of resident entries. No subtraction from the total goes below
\* zero: the total is at least the size of every entry that a call can take
\* out, and the states an insert passes through while it evicts are states
\* that removes of the oldest key reach.
C11_MemoryTotal ==
    /\ stats(cache).memory_used = ResidentMemory(cache)
    /\ stats(cache).tile_count = Len(cache.access_order)
    /\ stats(cache).tile_count = Cardinality(DOMAIN cache.tiles)
    /\ cache.current_memory >= 0
    /\ \A k \in DOMAIN cache.tiles : cache.current_memory - cache.tiles[k].memory_size >= 0
    /\ evict_oldest(cache).ok =>
           evict_oldest(cache).cache = remove(cache, cache.access_order[1]).cache

\* An insert on a resident key has evicted an entry and left two or more
\* entries resident.
C11_Witness ==
    /\ cacheCall.op = "insert"
    /\ cacheCall.hit
    /\ cacheCall.evicted >= 1
    /\ Cardinality(DOMAIN cache.tiles) >= 2

\* C without its n least recently used entries.
DropOldest(C, n) ==
    LET gone == { C.access_order[i] : i \in 1..n } IN
    [C EXCEPT !.access_order = SubSeq(@, n + 1, Len(@)),
              !.tiles = [k \in (DOMAIN @) \ gone |-> @[k]],
              !.current_memory = @ - SumSizes(C.tiles, gone)]

\* The condition under which insert stops evicting.
StopsEvicting(C, memory_size) ==
    \/ DOMAIN C.tiles = {}
    \/ /\ Cardinality(DOMAIN C.tiles) < C.max_tiles
       /\ C.current_memory + memory_size <= C.max_memory

\* The least number of oldest entries to take out of C for the stop
\* condition to hold.
LeastEviction(C, memory_size) ==
    CHOOSE n \in 0..Len(C.access_order) :
        /\ StopsEvicting(DropOldest(C, n), memory_size)
        /\ \A j \in 0..(n - 1) : ~StopsEvicting(DropOldest(C, j), memory_size)

\* C12: insert(key, entry) takes entries out only at the least recently used
\* end of the access order, one at a time (evict_oldest takes out exactly the
\* first key), and as few as make the cache empty or leave the count below
\* max_tiles with room for the entry in max_memory: none when that already
\* holds. What stays keeps its order and its entries; key comes last. This
\* is so for the insert of every key and size in every state the cache
\* reaches.
C12_EvictsOldestUntilFits ==
    /\ evict_oldest(cache).ok =>
           /\ evict_oldest(cache).cache.access_order = Tail(cache.access_order)
           /\ DOMAIN evict_oldest(cache).cache.tiles
                  = (DOMAIN cache.tiles) \ {Head(cache.access_order)}
    /\ \A m \in TileSizes :
           LET n == LeastEviction(cache, m)
               left == SubSeq(cache.access_order, n + 1, Len(cache.access_order))
           IN /\ StopsEvicting(cache, m) => n = 0
              /\ \A k \in CacheKeys :
                    LET after == insert(cache, k, CachedTile(m))
                        kept == Retain(left, k)
                    IN /\ after.access_order = Append(kept, k)
                       /\ DOMAIN after.tiles = Range(kept) \cup {k}
                       /\ \A j \in Range(kept) : after.tiles[j] = cache.tiles[j]

\* An insert has evicted two entries, one after the other, and stopped with
\* an entry left.
C12_Witness ==
    /\ cacheCall.op = "insert"
    /\ cacheCall.evicted >= 2
    /\ Cardinality(DOMAIN cache.tiles) >= 2

\* An entry that max_memory cannot hold even in an empty cache.
Oversized(C, memory_size) == memory_size > C.max_memory

\* C13: insert can always be called and returns; afterwards the key is
\* resident with the entry given, whatever its size. An oversized entry
\* inserted into an empty cache is resident afterwards, and an oversized
\* entry inserted under another key while an oversized entry is the only
\* resident leaves exactly the new one resident. This is so for the insert
\* of every key and size in every state the cache reaches.
C13_InsertAlwaysAccepts ==
    \A k \in CacheKeys, m \in TileSizes :
       LET after == insert(cache, k, CachedTile(m)) IN
       /\ contains(after, k)
       /\ peek(after, k) = Some(CachedTile(m))
       /\ (DOMAIN cache.tiles = {} /\ Oversized(cache, m)) =>
              /\ DOMAIN after.tiles = {k}
              /\ after.current_memory = m
       /\ \A j \in CacheKeys \ {k} :
              ( /\ DOMAIN cache.tiles = {j}
                /\ Oversized(cache, cache.tiles[j].memory_size)
                /\ Oversized(cache, m) ) =>
                  /\ DOMAIN after.tiles = {k}
                  /\ after.access_order = <<k>>
                  /\ after.current_memory = m

\* In a cache that could hold two entries by count and holds none by
\* memory, an insert under a new key has evicted the one resident entry and
\* its own entry is the only resident.
C13_Witness ==
    /\ cache.max_tiles >= 2
    /\ cache.max_memory = 0
    /\ cacheCall.op = "insert"
    /\ ~cacheCall.hit
    /\ cacheCall.evicted = 1
    /\ Cardinality(DOMAIN cache.tiles) = 1
    /\ Oversized(cache, cache.current_memory)

\* The number of times k occurs in q.
Occurrences(q, k) == Cardinality({ i \in 1..Len(q) : q[i] = k })

\* C14: after insert(key, entry) on a resident key, key occurs once in the
\* access order, at the most recently used end, its entry is the new one,
\* and the memory total is the old total less the sizes of the entries that
\* left (the old entry of key among them) plus entry.memory_size: the sum
\* over the entries resident now. This is so for the insert of every
\* resident key and every size in every state the cache reaches.
C14_InsertReplaces ==
    \A k \in DOMAIN cache.tiles, m \in TileSizes :
       LET after == insert(cache, k, CachedTile(m))
           gone == (DOMAIN cache.tiles) \ ((DOMAIN after.tiles) \ {k})
       IN /\ Occurrences(after.access_order, k) = 1
          /\ after.access_order[Len(after.access_order)] = k
          /\ after.tiles[k] = CachedTile(m)
          /\ k \in gone
          /\ after.current_memory = cache.current_memory - SumSizes(cache.tiles, gone) + m
          /\ after.current_memory = m + SumSizes(after.tiles, (DOMAIN after.tiles) \ {k})

\* An insert on a resident key has evicted nothing: the key's entry now has
\* the largest size and another entry is resident with it.
C14_Witness ==
    /\ cacheCall.op = "insert"
    /\ cacheCall.hit
    /\ cacheCall.evicted = 0
    /\ Cardinality(DOMAIN cache.tiles) >= 2
    /\ cache.tiles[cache.access_order[Len(cache.access_order)]].memory_size = MaxTileMem

\* The draws of a render of `tiles`: the resident tiles of the list, in the
\* order of the list, each with its entry.
Draws(tiles, C) ==
    LET held == SelectSeq(tiles, LAMBDA t : t \in DOMAIN C.tiles)
    IN [i \in 1..Len(held) |-> <<held[i], C.tiles[held[i]]>>]

\* C15: contains and peek answer for resident and absent keys alike without
\* changing the cache: the tiles, the access order and the memory total are
\* after the call what they were before it. A render, which reads the cache
\* through peek alone, draws the resident tiles of its list and changes
\* nothing either.
C15_ReadsChangeNothing ==
    /\ [](\A k \in CacheKeys :
             /\ contains(cache, k) = (k \in DOMAIN cache.tiles)
             /\ peek(cache, k) = IF k \in DOMAIN cache.tiles THEN Some(cache.tiles[k]) ELSE None)
    /\ [](\A tiles \in RenderLists : render(tiles, cache) = Draws(tiles, cache))
    /\ [][\A k \in CacheKeys : (CachePeek(k) \/ CacheContains(k)) => cache' = cache]_vars
    /\ [][\A tiles \in RenderLists : CacheRender(tiles) => cache' = cache]_vars

\* peek has just been called on a resident key with two or more entries
\* resident.
C15_Witness ==
    /\ cacheCall.op = "peek"
    /\ cacheCall.hit
    /\ Len(cache.access_order) >= 2

\* C16: get(key) on a resident key returns its entry and moves key to the
\* most recently used end of the access order; the other keys keep their
\* relative order and the tiles, the memory total and the budgets stay as
\* they were. On an absent key it returns None and changes nothing.
C16_GetTouchesOnlyKey ==
    [][\A k \in CacheKeys :
         CacheGet(k) =>
           IF k \in DOMAIN cache.tiles
           THEN /\ get(cache, k).result = Some(cache.tiles[k])
                /\ cache'.access_order[Len(cache'.access_order)] = k
                /\ Retain(cache'.access_order, k) = Retain(cache.access_order, k)
                /\ Len(cache'.access_order) = Len(cache.access_order)
                /\ cache' = [cache EXCEPT !.access_order = cache'.access_order]
           ELSE /\ get(cache, k).result = None
                /\ cache' = cache
      ]_vars

\* get has just hit the least recently used of three or more keys.
C16_Witness ==
    /\ cacheCall.op = "get"
    /\ cacheCall.hit
    /\ cacheCall.pos = 1
    /\ Len(cache.access_order) >= 3

\* C17: remove(key) on a resident key returns its entry, takes key out of the
\* tiles and out of the access order and lowers the memory total by the
\* entry's memory_size; the other entries and their order stay as they
\* were. On an absent key it returns None and changes nothing.
C17_RemoveTakesOnlyKey ==
    [][\A k \in CacheKeys :
         CacheRemove(k) =>
           IF k \in DOMAIN cache.tiles
           THEN /\ remove(cache, k).result = Some(cache.tiles[k])
                /\ DOMAIN cache'.tiles = (DOMAIN cache.tiles) \ {k}
                /\ \A j \in DOMAIN cache'.tiles : cache'.tiles[j] = cache.tiles[j]
                /\ Occurrences(cache'.access_order, k) = 0
                /\ cache'.access_order = Retain(cache.access_order, k)
                /\ cache'.current_memory = cache.current_memory - cache.tiles[k].memory_size
                /\ cache'.max_tiles = cache.max_tiles
                /\ cache'.max_memory = cache.max_memory
           ELSE /\ remove(cache, k).result = None
                /\ cache' = cache
      ]_vars

\* remove has just taken out the middle one of three keys.
C17_Witness ==
    /\ cacheCall.op = "remove"
    /\ cacheCall.hit
    /\ cacheCall.pos = 2
    /\ Len(cache.access_order) = 2

(***************************************************************************)
(* The camera driven by its caller. The arguments are finite numbers: on   *)
(* the limits of the legal ranges, just beyond them and far beyond them.   *)
(* For every pixel delta or screen point passed, the locals lon_delta and  *)
(* lat_delta of pan and zoom_at are finite numbers of either sign, the     *)
(* factor from pixels to degrees being positive and finite at every        *)
(* latitude and zoom the camera holds.                                     *)
(***************************************************************************)
MaxTurns == 1
MaxBuffer == 2

Signed(S) == S \cup { -v : v \in S }

LonArgs == Signed({0, 1, HalfTurn, HalfTurn + 1, MaxTurns * Turn + HalfTurn + 1})
LatArgs == Signed({0, 1, LatLimit, LatLimit + 1})
ZoomArgs ==
    { -ZoomUnits, 0, HalfLevel, ZoomUnits, ZoomUnits + HalfLevel, 2 * ZoomUnits, 3 * ZoomUnits,
      MaxZoom - HalfLevel, MaxZoom, MaxZoom + ZoomUnits }
LonDeltas == Signed({0, 1, MaxTurns * Turn + 1})
LatDeltas == Signed({0, 1, 2 * LatLimit + 1})
ZoomDeltas == Signed({0, MaxZoom - HalfLevel, MaxZoom + ZoomUnits})
Viewports == { <<0, 0>>, <<800, 600>>, <<1920, 1080>> }
Buffers == 0..MaxBuffer

\* A call on the camera: `adjusted` says that the call had to bring a value
\* back into its range, `buffer` is the argument of a visible_tiles call.
CameraCall(op, adjusted, buffer) == [op |-> op, adjusted |-> adjusted, buffer |-> buffer]

\* lon, lat or zoom lies outside the range the camera keeps it in.
OutOfRange(lon, lat, zoom) ==
    \/ lon < -HalfTurn \/ lon > HalfTurn
    \/ lat < -LatLimit \/ lat > LatLimit
    \/ zoom < 0 \/ zoom > MaxZoom

InitCamera ==
    /\ \E lon \in LonArgs, lat \in LatArgs, zoom \in ZoomArgs, v \in Viewports :
          /\ camera = MapCamera_new(lon, lat, zoom, v[1], v[2])
          /\ cameraCall = CameraCall("new", OutOfRange(lon, lat, zoom), 0)
    /\ InitLoaderIdle
    /\ InitCacheIdle
    /\ InitTileIdle
    /\ InitSystemIdle
    /\ InitWasmIdle

CameraPan(lon_delta, lat_delta) ==
    /\ camera' = pan(camera, lon_delta, lat_delta)
    /\ cameraCall' = CameraCall("pan", OutOfRange(camera.center[1] - lon_delta,
                                                  camera.center[2] + lat_delta, 0), 0)
    /\ UNCHANGED <<loaderVars, cacheVars, tileVars, systemVars, wasmVars>>

CameraZoomAt(delta, lon_delta, lat_delta) ==
    /\ camera' = zoom_at(camera, delta, lon_delta, lat_delta)
    /\ cameraCall' = CameraCall("zoom_at", OutOfRange(camera.center[1] + lon_delta,
                                                      camera.center[2] - lat_delta,
                                                      camera.zoom + delta), 0)
    /\ UNCHANGED <<loaderVars, cacheVars, tileVars, systemVars, wasmVars>>

CameraZoomBy(delta) ==
    /\ camera' = zoom_by(camera, delta)
    /\ cameraCall' = CameraCall("zoom_by", OutOfRange(0, 0, camera.zoom + delta), 0)
    /\ UNCHANGED <<loaderVars, cacheVars, tileVars, systemVars, wasmVars>>

\* MapSystem::resize
CameraResize(width, height) ==
    /\ camera' = set_viewport(camera, width, height)
    /\ cameraCall' = CameraCall("resize", FALSE, 0)
    /\ UNCHANGED <<loaderVars, cacheVars, tileVars, systemVars, wasmVars>>

CameraSetCenter(lon, lat) ==
    /\ camera' = set_center(camera, lon, lat)
    /\ cameraCall' = CameraCall("set_center", OutOfRange(lon, lat, 0), 0)
    /\ UNCHANGED <<loaderVars, cacheVars, tileVars, systemVars, wasmVars>>

CameraSetZoom(zoom) ==
    /\ camera' = set_zoom(camera, zoom)
    /\ cameraCall' = CameraCall("set_zoom", OutOfRange(0, 0, zoom), 0)
    /\ UNCHANGED <<loaderVars, cacheVars, tileVars, systemVars, wasmVars>>

\* visible_tiles_with_buffer takes &self.
CameraVisibleTiles(buffer) ==
    /\ Len(visible_tiles_with_buffer(camera, buffer)) >= 0
    /\ cameraCall' = CameraCall("visible_tiles", FALSE, buffer)
    /\ UNCHANGED camera
    /\ UNCHANGED <<loaderVars, cacheVars, tileVars, systemVars, wasmVars>>

NextCamera ==
    \/ \E a \in LonDeltas, b \in LatDeltas : CameraPan(a, b)
    \/ \E d \in ZoomDeltas, a \in LonDeltas, b \in LatDeltas : CameraZoomAt(d, a, b)
    \/ \E d \in ZoomDeltas : CameraZoomBy(d)
    \/ \E v \in Viewports : CameraResize(v[1], v[2])
    \/ \E lon \in LonArgs, lat \in LatArgs : CameraSetCenter(lon, lat)
    \/ \E zoom \in ZoomArgs : CameraSetZoom(zoom)
    \/ \E b \in Buffers : CameraVisibleTiles(b)

SpecCamera == InitCamera /\ [][NextCamera]_vars

(***************************************************************************)
(* Properties of the camera.                                               *)
(***************************************************************************)
\* The list that the most recent call, a visible_tiles call, returned.
VisibleList == visible_tiles_with_buffer(camera, cameraCall.buffer)

\* C18 as stated: the list that visible_tiles returns holds no tile twice.
C18_NoDuplicates ==
    cameraCall.op = "visible_tiles" =>
        \A i \in 1..Len(VisibleList), j \in 1..Len(VisibleList) :
            VisibleList[i] = VisibleList[j] => i = j

\* C19: every tile that visible_tiles returns has z = floor(zoom) and x and
\* y in [0, 2^z). The list is row by row: y never decreases along the list
\* and goes up by one where it changes, so that no row outside [0, 2^z) is
\* wrapped into it; within a row x goes up by one modulo 2^z; every row has
\* the same number of tiles.
C19_ValidTilesRowMajor ==
    cameraCall.op = "visible_tiles" =>
        LET L == VisibleList
            z == camera.zoom \div ZoomUnits
            n == 2 ^ z
            RowLen(y) == Cardinality({ i \in 1..Len(L) : L[i].y = y })
        IN /\ z * ZoomUnits <= camera.zoom /\ camera.zoom < (z + 1) * ZoomUnits
           /\ \A i \in 1..Len(L) :
                 /\ L[i].z = z
                 /\ 0 <= L[i].x /\ L[i].x < n
                 /\ 0 <= L[i].y /\ L[i].y < n
           /\ \A i \in 1..(Len(L) - 1) :
                 \/ L[i + 1].y = L[i].y /\ L[i + 1].x = (L[i].x + 1) % n
                 \/ L[i + 1].y = L[i].y + 1
           /\ \A i \in 1..Len(L) : RowLen(L[i].y) = RowLen(L[1].y)

\* visible_tiles has just been called on a camera at the northern latitude
\* limit, between zoom levels 18 and 19, with a viewport: rows above row 0
\* were skipped and columns left of column 0 wrapped.
C19_Witness ==
    /\ cameraCall.op = "visible_tiles"
    /\ camera.center = <<-HalfTurn, LatLimit>>
    /\ camera.zoom = MaxZoom - HalfLevel
    /\ camera.viewport_width = 800
    /\ Len(VisibleList) > 0
    /\ VisibleList[1].y = 0
    /\ VisibleList[1].x > VisibleList[Len(VisibleList)].x

\* C20: the camera's center longitude is in [-180, 180], its center
\* latitude in [-85.05112878, 85.05112878] and its zoom in [0, 19], after
\* construction and after every call.
C20_CameraInRange ==
    /\ -HalfTurn <= camera.center[1] /\ camera.center[1] <= HalfTurn
    /\ -LatLimit <= camera.center[2] /\ camera.center[2] <= LatLimit
    /\ 0 <= camera.zoom /\ camera.zoom <= MaxZoom

\* zoom_at has just brought the zoom back to 19 and the center back into
\* its range.
C20_Witness ==
    /\ cameraCall.op = "zoom_at"
    /\ cameraCall.adjusted
    /\ camera.zoom = MaxZoom
    /\ camera.center[2] = -LatLimit

(***************************************************************************)
(* zoom_at driven on its own, with zoom deltas below its threshold and     *)
(* with screen points. A delta below the threshold is passed for as long   *)
(* as the zoom stays within MaxNudge units of a whole or a half level. A   *)
(* screen point lies on the horizontal centre line of the viewport, at a   *)
(* whole number of tiles from its centre, and is passed when the locals    *)
(* of zoom_at are exact in the units of the model.                         *)
(***************************************************************************)
MaxNudge == 2

\* Zoom deltas below the threshold 0.001 of zoom_at: 0.0005 either way.
SmallZoomDeltas == Signed({ZoomEpsilon - 1})
\* Zoom deltas of one and two whole levels.
LevelDeltas == Signed({ZoomUnits, 2 * ZoomUnits})
\* screen_x minus half the viewport width.
ScreenOffsets == Signed({0, TILE_SIZE, 2 * TILE_SIZE})

\* The zoom lies within MaxNudge units of a whole or a half level.
NearLevel(zoom) ==
    \/ zoom % HalfLevel <= MaxNudge
    \/ HalfLevel - (zoom % HalfLevel) <= MaxNudge

InitZoomAt == InitCamera

ZoomAtNudge(delta, lon_delta, lat_delta) ==
    /\ NearLevel(zoom_at(camera, delta, lon_delta, lat_delta).zoom)
    /\ CameraZoomAt(delta, lon_delta, lat_delta)

ZoomAtScreen(delta, screen_x, screen_y) ==
    /\ ZoomAtExact(camera, delta, screen_x, screen_y)
    /\ camera' = zoom_at_screen(camera, delta, screen_x, screen_y)
    /\ cameraCall' = CameraCall("zoom_at", OutOfRange(0, 0, camera.zoom + delta), 0)
    /\ UNCHANGED <<loaderVars, cacheVars, tileVars, systemVars, wasmVars>>

NextZoomAt ==
    \/ \E d \in ZoomDeltas, a \in LonDeltas, b \in LatDeltas : CameraZoomAt(d, a, b)
    \/ \E d \in SmallZoomDeltas, a \in LonDeltas, b \in LatDeltas : ZoomAtNudge(d, a, b)
    \/ \E d \in LevelDeltas, o \in ScreenOffsets :
          ZoomAtScreen(d, (camera.viewport_width \div 2) + o, camera.viewport_height \div 2)

SpecZoomAt == InitZoomAt /\ [][NextZoomAt]_vars

\* The change of zoom that zoom_at(delta, ..) makes after clamping.
NetZoomChange(C, delta) == Abs(Clamp(C.zoom + delta, 0, MaxZoom) - C.zoom)

\* C21 as stated: a zoom_at whose net zoom change after clamping is below
\* 0.001 leaves the camera as it was: zoom, center and viewport size.
C21_SmallZoomAtIsNoOp ==
    [][\A d \in ZoomDeltas \cup SmallZoomDeltas, a \in LonDeltas, b \in LatDeltas :
         (CameraZoomAt(d, a, b) /\ NetZoomChange(camera, d) < ZoomEpsilon) =>
             camera' = camera
      ]_vars

\* Two world points are the same place: the longitudes differ by whole
\* turns and the latitudes are equal.
SamePlace(p, q) == (p[1] - q[1]) % Turn = 0 /\ p[2] = q[2]

\* zoom_at(delta, ..) changes the zoom by delta: the sum is not clamped.
NotClamped(C, delta) == 0 <= C.zoom + delta /\ C.zoom + delta <= MaxZoom

\* C22 as stated: after zoom_at(delta, screen_x, screen_y) that clamps
\* nothing, the world point that screen_to_world(screen_x, screen_y) gave
\* before the call is the one it gives after the call.
C22_CursorStationary ==
    [][\A d \in LevelDeltas, o \in ScreenOffsets :
         LET screen_x == (camera.viewport_width \div 2) + o
             screen_y == camera.viewport_height \div 2
         IN ( /\ ZoomAtScreen(d, screen_x, screen_y)
              /\ NotClamped(camera, d)
              /\ LonExact(camera, o, 1)
              /\ LonExact(camera', o, 1) ) =>
                SamePlace(screen_to_world(camera', screen_x, screen_y),
                          screen_to_world(camera, screen_x, screen_y))
      ]_vars

(***************************************************************************)
(* The functions of tile.rs called one at a time. A call of                *)
(* normalize_longitude goes through its two loops one test at a time; the  *)
(* other functions have no loop.                                           *)
(***************************************************************************)
MaxSmallX == 4

\* Arguments x of wrap_tile_x: the ends of i32, the numbers around the
\* largest 2^zoom and around 0.
WrapArgs ==
    {I32Min, I32Min + 1, I32Max - 1, I32Max}
      \cup Signed({Pow2(MaxZoomLevel) - 1, Pow2(MaxZoomLevel), Pow2(MaxZoomLevel) + 1})
      \cup Signed(0..MaxSmallX)
Zooms == 0..MaxZoomLevel

\* Longitudes passed to normalize_longitude.
NormalizeArgs == Signed(0..(MaxTurns * Turn + HalfTurn + 1)) \cup Signed({HugeLon})

\* Latitudes of the Mercator table.
TableLats == (-LatLimit)..LatLimit

\* The tiles of the zooms up to MaxCornerZoom.
CornerTiles ==
    { TileId(x, y, z) : x \in 0..(Pow2(MaxCornerZoom) - 1), y \in 0..(Pow2(MaxCornerZoom) - 1),
                        z \in 0..MaxCornerZoom }

\* TileId::parent_at_zoom: None for a zoom that is not coarser, the tile
\* with both indices shifted right by the zoom difference otherwise.
parent_at_zoom(t, target_z) ==
    IF target_z >= t.z THEN None
    ELSE LET diff == t.z - target_z
         IN Some(TileId(t.x \div Pow2(diff), t.y \div Pow2(diff), target_z))

\* The f32 1.0 in units of 2^-24. Every f32 in [0, 1] that is a multiple of
\* 2^-24 is a whole number of units, and sums and products of such values
\* that stay in [0, 1] are exact; the zoom difference is at most 19.
UvOne == 2 ^ 24

\* calculate_sub_region with the indices of the target taken whole.
calculate_sub_region_global(target, parent) ==
    IF parent.z >= target.z THEN <<0, 0, UvOne, UvOne>>
    ELSE LET size == UvOne \div Pow2(target.z - parent.z)
         IN <<target.x * size, target.y * size, target.x * size + size, target.y * size + size>>

\* calculate_sub_region: (u0, v0, u1, v1) of the target in the image of the
\* parent.
calculate_sub_region(target, parent) ==
    IF parent.z >= target.z THEN <<0, 0, UvOne, UvOne>>
    ELSE LET zoom_diff == target.z - parent.z
             subdivisions == Pow2(zoom_diff)
             local_x == target.x % subdivisions
             local_y == target.y % subdivisions
             size == UvOne \div subdivisions
             u0 == local_x * size
             v0 == local_y * size
         IN <<u0, v0, u0 + size, v0 + size>>

\* The tiles given to calculate_sub_region: every tile of the zooms up to
\* MaxSubZoom, and tiles in the corners and the middle of the deepest zoom.
DeepIndices == {0, 1, Pow2(MaxZoomLevel - 1), Pow2(MaxZoomLevel) - 1}
SubRegionTiles ==
    { t \in { TileId(x, y, z) : x \in 0..(Pow2(MaxSubZoom) - 1), y \in 0..(Pow2(MaxSubZoom) - 1),
                                z \in 0..MaxSubZoom } : t.x < Pow2(t.z) /\ t.y < Pow2(t.z) }
      \cup { TileId(x, y, MaxZoomLevel) : x \in DeepIndices, y \in DeepIndices }

\* The parents given with the target t: each of its ancestors, the tile
\* itself and the first tile of every zoom that is not coarser.
SubRegionParents(t) ==
    { parent_at_zoom(t, pz)[1] : pz \in 0..(t.z - 1) }
      \cup {t} \cup { TileId(0, 0, z) : z \in { z \in Zooms : z >= t.z } }

\* A call of a function of tile.rs: its arguments, what it has computed, and
\* "done" once it has returned.
TileCall(op, args, ret, pc) == [op |-> op, args |-> args, ret |-> ret, pc |-> pc]

InitTile ==
    /\ tileCall = TileCall("none", <<>>, <<>>, "done")
    /\ InitLoaderIdle
    /\ InitCacheIdle
    /\ InitCameraIdle
    /\ InitSystemIdle
    /\ InitWasmIdle

TileWrapX(x, zoom) ==
    /\ tileCall.pc = "done"
    /\ tileCall' = TileCall("wrap_tile_x", <<x, zoom>>, <<wrap_tile_x(x, zoom)>>, "done")
    /\ UNCHANGED <<loaderVars, cacheVars, cameraVars, systemVars, wasmVars>>

TileNormalize(lon) ==
    /\ tileCall.pc = "done"
    /\ tileCall' = TileCall("normalize_longitude", <<lon>>, <<lon>>, "up")
    /\ UNCHANGED <<loaderVars, cacheVars, cameraVars, systemVars, wasmVars>>

TileNormalizeStep ==
    /\ tileCall.op = "normalize_longitude"
    /\ tileCall.pc # "done"
    /\ LET n == normalize_step(tileCall.ret[1], tileCall.pc)
       IN tileCall' = [tileCall EXCEPT !.ret = <<n.l>>, !.pc = n.pc]
    /\ UNCHANGED <<loaderVars, cacheVars, cameraVars, systemVars, wasmVars>>

TileLonLatToTile(lon, lat, zoom) ==
    /\ tileCall.pc = "done"
    /\ tileCall' = TileCall("lon_lat_to_tile", <<lon, lat, zoom>>,
                            lon_lat_to_tile(lon, lat, zoom), "done")
    /\ UNCHANGED <<loaderVars, cacheVars, cameraVars, systemVars, wasmVars>>

TileSeoul(zoom) ==
    /\ tileCall.pc = "done"
    /\ tileCall' = TileCall("lon_lat_to_tile(Seoul)", <<zoom>>,
                            tile_at(lon_lat_to_tile_f64_seoul(zoom), zoom), "done")
    /\ UNCHANGED <<loaderVars, cacheVars, cameraVars, systemVars, wasmVars>>

\* lon_lat_to_tile of what tile_to_lon_lat returns, at the same zoom.
TileRoundTrip(t) ==
    /\ tileCall.pc = "done"
    /\ t.x < Pow2(t.z) /\ t.y < Pow2(t.z)
    /\ tileCall' = TileCall("round_trip", <<t.x, t.y, t.z>>,
                            tile_at(lon_lat_to_tile_f64_corner(tile_to_lon_lat(t.x, t.y, t.z), t.z),
                                    t.z), "done")
    /\ UNCHANGED <<loaderVars, cacheVars, cameraVars, systemVars, wasmVars>>

NextTile ==
    \/ \E x \in WrapArgs, zoom \in Zooms : TileWrapX(x, zoom)
    \/ \E lon \in NormalizeArgs : TileNormalize(lon)
    \/ TileNormalizeStep
    \/ \E lon \in LonArgs, lat \in TableLats, zoom \in Zooms : TileLonLatToTile(lon, lat, zoom)
    \/ \E zoom \in Zooms : TileSeoul(zoom)
    \/ \E t \in CornerTiles : TileRoundTrip(t)

SpecTile == InitTile /\ [][NextTile]_vars

\* calculate_sub_region is called once, with a target and a parent chosen
\* at the start.
InitSubRegion ==
    /\ \E t \in SubRegionTiles : \E p \in SubRegionParents(t) :
          tileCall = TileCall("calculate_sub_region", <<t, p>>, <<>>, "call")
    /\ InitLoaderIdle
    /\ InitCacheIdle
    /\ InitCameraIdle
    /\ InitSystemIdle
    /\ InitWasmIdle

TileSubRegion ==
    /\ tileCall.op = "calculate_sub_region"
    /\ tileCall.pc = "call"
    /\ tileCall' = [tileCall EXCEPT
                       !.ret = calculate_sub_region(tileCall.args[1], tileCall.args[2]),
                       !.pc = "done"]
    /\ UNCHANGED <<loaderVars, cacheVars, cameraVars, systemVars, wasmVars>>

NextSubRegion == TileSubRegion

SpecSubRegion == InitSubRegion /\ [][NextSubRegion]_vars

\* The loops of normalize_longitude are not held up.
SpecTileFair == SpecTile /\ WF_vars(TileNormalizeStep)

(***************************************************************************)
(* Properties of the functions of tile.rs.                                 *)
(***************************************************************************)
\* C23: wrap_tile_x(x, zoom) for every i32 x and every zoom in [0, 19] is in
\* [0, 2^zoom) and congruent to x modulo 2^zoom; the remainder and the sum
\* before the cast stay within i32, the sum is not negative, so that the
\* cast keeps it; wrap_tile_x(4, 2) = 0, wrap_tile_x(-1, 2) = 3 and
\* wrap_tile_x(2, 2) = 2.
C23_WrapTileXTotal ==
    /\ tileCall.op = "wrap_tile_x" =>
          LET x == tileCall.args[1]
              zoom == tileCall.args[2]
              n == 2 ^ zoom
              ret == tileCall.ret[1]
          IN /\ 0 <= ret /\ ret < n
             /\ ret % n = x % n
             /\ 0 < n /\ n <= I32Max
             /\ -n < Rem(x, n) /\ Rem(x, n) < n
             /\ 0 < wrap_tile_x_sum(x, zoom) /\ wrap_tile_x_sum(x, zoom) <= I32Max
    /\ wrap_tile_x(4, 2) = 0
    /\ wrap_tile_x(-1, 2) = 3
    /\ wrap_tile_x(2, 2) = 2

\* wrap_tile_x has returned for the least i32 at zoom 19.
C23_Witness ==
    /\ tileCall.op = "wrap_tile_x"
    /\ tileCall.args = <<I32Min, MaxZoomLevel>>
    /\ tileCall.ret = <<0>>

\* The longitude l is in [-180, 180].
LonInRange(l) == -HalfTurn <= l /\ l <= HalfTurn

\* C24 as stated: every call of normalize_longitude returns, and what it
\* returns is in [-180, 180] and differs from the argument by whole turns;
\* an argument in [-180, 180], the end points included, is returned as it is.
C24_NormalizeTerminates ==
    (tileCall.op = "normalize_longitude") ~>
        ( /\ tileCall.op = "normalize_longitude"
          /\ tileCall.pc = "done"
          /\ LonInRange(tileCall.ret[1])
          /\ (tileCall.ret[1] - tileCall.args[1]) % Turn = 0
          /\ LonInRange(tileCall.args[1]) => tileCall.ret = tileCall.args )

\* C25 as stated: lon_lat_to_tile of what tile_to_lon_lat returns for the
\* tile (x, y) at zoom z, at the same zoom, is (x, y).
C25_RoundTrip ==
    tileCall.op = "round_trip" =>
        tileCall.ret = <<tileCall.args[1], tileCall.args[2]>>

\* What lon_lat_to_tile is to return for the fractional tile position c:
\* the floor of each coordinate, brought into [0, 2^zoom - 1].
FloorClamped(c, zoom) ==
    << Clamp(c.x_floor, 0, (2 ^ zoom) - 1), Clamp(c.y_floor, 0, (2 ^ zoom) - 1) >>

\* Both indices of a tile index pair are in [0, 2^zoom - 1].
ValidIndexPair(t, zoom) ==
    /\ 0 <= t[1] /\ t[1] <= (2 ^ zoom) - 1
    /\ 0 <= t[2] /\ t[2] <= (2 ^ zoom) - 1

\* lon_lat_to_tile returns the clamped floor of the fractional tile
\* position, a valid index pair, for longitudes and latitudes within and
\* beyond their ranges and for the test point at every zoom.
ClampedFloorReturned ==
    /\ tileCall.op = "lon_lat_to_tile" =>
          LET zoom == tileCall.args[3]
              c == lon_lat_to_tile_f64(tileCall.args[1], tileCall.args[2], zoom)
          IN tileCall.ret = FloorClamped(c, zoom) /\ ValidIndexPair(tileCall.ret, zoom)
    /\ tileCall.op = "lon_lat_to_tile(Seoul)" =>
          LET zoom == tileCall.args[1]
          IN /\ tileCall.ret = FloorClamped(lon_lat_to_tile_f64_seoul(zoom), zoom)
             /\ ValidIndexPair(tileCall.ret, zoom)

DefaultMaxTiles == 256
DefaultMaxMemory == 64 * 1024 * 1024

\* TileCache::default
TileCache_default == TileCache_new(DefaultMaxTiles, DefaultMaxMemory)

\* A test of the request loop that does not look at the cache.
needs_request_resident(C, L, tile_id) == ~is_loading(L, tile_id)

\* `!self.tile_cache.contains(tile_id) && !self.tile_loader.is_loading(tile_id)`
needs_request(C, L, tile_id) == ~contains(C, tile_id) /\ ~is_loading(L, tile_id)

\* The fetches of the loader that have not completed: the requests on the
\* channel, at the worker and of the running tasks.
Fetching(L) == Range(L.request_tx) \cup Range(L.worker) \cup L.tasks

\* The number of fetches of tile_id that poll has not returned: those that
\* have not completed and the queued results.
InFlight(L, tile_id) ==
    Cardinality({ i \in 1..Len(L.request_tx) : L.request_tx[i].tile_id = tile_id })
    + Cardinality({ i \in 1..Len(L.worker) : L.worker[i].tile_id = tile_id })
    + Cardinality({ t \in L.tasks : t.tile_id = tile_id })
    + Cardinality({ i \in 1..Len(L.result_rx) : L.result_rx[i].tile_id = tile_id })

\* update, step 2: the request loop over the visible tiles. The fetches are
\* not numbered here: every one carries the fetch number 1.
RECURSIVE request_visible(_, _, _)
request_visible(visible, C, L) ==
    IF visible = <<>> THEN L
    ELSE LET tile_id == Head(visible)
             L2 == IF needs_request(C, L, tile_id) THEN request(L, tile_id, 1) ELSE L
         IN request_visible(Tail(visible), C, L2)

\* A step 3 that inserts whatever create_cached_tile returned, on a fetch
\* that failed as well.
process_result_any(C, result, decoded) ==
    IF decoded # None THEN insert(C, result.tile_id, decoded[1]) ELSE C

\* update, step 3, the body of the loop for one polled result. `decoded` is
\* what create_cached_tile makes of the bytes of a Success: None for Err,
\* Some(tile) for Ok.
process_result(C, result, decoded) ==
    IF result.kind = "Success" /\ decoded # None
    THEN insert(C, result.tile_id, decoded[1])
    ELSE C

\* A step 4 that lists every visible tile.
build_render_list_all(visible, C) == visible

\* update, step 4: the visible tiles the cache holds, in the order of the
\* visible list. The NDC position and size pushed with each tile id are a
\* function of the camera and are left out.
build_render_list(visible, C) == SelectSeq(visible, LAMBDA tile_id : contains(C, tile_id))

(***************************************************************************)
(* The MapSystem driven by its frame loop, by the input handlers that move *)
(* the camera between two frames, and by the loader's fetch-execution      *)
(* context. An update is three kinds of step, because the native worker    *)
(* thread runs while it does: the request loop, one step for every result  *)
(* that poll returns, and the step in which poll returns None and the      *)
(* render list is built. On wasm32 the fetch tasks run on the thread of    *)
(* the update and so only between two calls of it. The histories of the    *)
(* loader and of the cache are not kept here.                              *)
(***************************************************************************)
MaxUpdates == 2         \* updates begun in one behaviour
SystemLevels == 0..1    \* the zoom levels the camera is taken to

\* memory_size of a decoded tile: width * height * 4, for a tile of 256 x 256
\* and for an image of 4096 x 4096, which alone fills the default cache.
TileBytes == TILE_SIZE * TILE_SIZE * 4
HugeTileBytes == 4096 * 4096 * 4

\* What create_cached_tile returns: Err, or Ok with a tile of either size.
Decodings == {None} \cup { Some(CachedTile(m)) : m \in {TileBytes, HugeTileBytes} }

\* The camera moves between the two zoom levels, at which the visible
\* tiles are the one tile of level 0 and the four tiles of level 1; the
\* handlers that move the center or resize the viewport are called with
\* arguments that leave it where it is.
SystemZooms == { l * ZoomUnits : l \in SystemLevels }
SystemViewport == TILE_SIZE

\* The tiles of the zoom levels the camera is taken to.
SystemKeys ==
    UNION { { TileId(x, y, z) : x \in 0..(Pow2(z) - 1), y \in 0..(Pow2(z) - 1) } : z \in SystemLevels }

\* The tiles that have more fetches in flight in L2 than in L.
Dispatched(L, L2) == { k \in SystemKeys : InFlight(L2, k) > InFlight(L, k) }

\* The update most recently begun: `pc` is "requested" when its request loop
\* has ended, "poll" once poll has returned a result to it, and "idle" once
\* it has returned; `n` counts the updates; `visible` is its local list
\* (empty once it has returned); `sent` are the tiles its request loop
\* dispatched a fetch for and `again` those of them that the update before
\* it polled a result of without inserting a tile (both empty once poll has
\* been called); `failed` are the tiles whose result it has polled without
\* inserting a tile.
Frame(pc, n, visible, sent, again, failed) ==
    [pc |-> pc, n |-> n, visible |-> visible, sent |-> sent, again |-> again, failed |-> failed]

Polling == frame.pc \in {"requested", "poll"}

\* MapSystem::new, then set_center and set_zoom to a point of the angle grid
\* (the default center is not one).
InitSystem ==
    /\ camera \in { set_zoom(set_center(MapCamera_new(0, 0, 12 * ZoomUnits,
                                                      SystemViewport, SystemViewport), 0, 0), zoom) :
                      zoom \in SystemZooms }
    /\ cameraCall = None
    /\ cache = TileCache_default
    /\ inserted = <<>>
    /\ touched = <<>>
    /\ plain = TRUE
    /\ cacheCall = NoCall
    /\ InitLoader
    /\ InitTileIdle
    /\ InitWasmIdle
    /\ render_tiles = <<>>
    /\ frame = Frame("idle", 0, <<>>, {}, {}, {})

UnchangedBySystem ==
    UNCHANGED <<mirror, dispatched, returned, lastCall, mirrorRet, cleared,
                inserted, touched, plain, cacheCall, cameraCall, tileVars, wasmVars>>

\* update, steps 1 and 2.
UpdateBegin ==
    LET visible == visible_tiles(camera)
        L2 == request_visible(visible, cache, loader)
        sent == Dispatched(loader, L2)
    IN
    /\ frame.pc = "idle"
    /\ frame.n < MaxUpdates
    /\ loader' = L2
    /\ frame' = Frame("requested", frame.n + 1, visible, sent, frame.failed \cap sent, {})
    /\ UNCHANGED <<cache, camera, render_tiles>>
    /\ UnchangedBySystem

\* update, step 3: poll returns a result and the loop body handles it.
UpdatePoll(decoded) ==
    LET got == poll(loader) IN
    /\ Polling
    /\ got.result # None
    /\ LET result == got.result[1]
       IN /\ loader' = got.loader
          /\ cache' = process_result(cache, result, decoded)
          /\ frame' = [frame EXCEPT !.pc = "poll", !.sent = {}, !.again = {},
                                      !.failed = IF result.kind = "Success" /\ decoded # None
                                                 THEN @ ELSE @ \cup {result.tile_id}]
    /\ UNCHANGED <<camera, render_tiles>>
    /\ UnchangedBySystem

\* update, the end of step 3 and step 4: poll returns None, the render list
\* is cleared and built, and update returns.
UpdateEnd ==
    LET got == poll(loader) IN
    /\ Polling
    /\ got.result = None
    /\ loader' = got.loader
    /\ render_tiles' = build_render_list(frame.visible, cache)
    /\ frame' = [frame EXCEPT !.pc = "idle", !.visible = <<>>, !.sent = {}, !.again = {}]
    /\ UNCHANGED <<cache, camera>>
    /\ UnchangedBySystem

\* MapSystem::render: it takes &self and draws; nothing of the system changes.
SystemRender ==
    /\ frame.pc = "idle"
    /\ UNCHANGED <<loader, cache, camera, render_tiles, frame>>
    /\ UnchangedBySystem

\* An input handler between two frames: it changes the camera only.
CameraMoves(C) ==
    /\ frame.pc = "idle"
    /\ tile_zoom(C) \in SystemLevels
    /\ camera' = C
    /\ UNCHANGED <<loader, cache, render_tiles, frame>>
    /\ UnchangedBySystem

\* MapSystem::resize
SystemResize(width, height) == CameraMoves(set_viewport(camera, width, height))

\* MapSystem::pan
SystemPan(lon_delta, lat_delta) == CameraMoves(pan(camera, lon_delta, lat_delta))

\* MapSystem::zoom
SystemZoom(delta) == CameraMoves(zoom_by(camera, delta))

\* MapSystem::zoom_at
SystemZoomAt(delta, lon_delta, lat_delta) == CameraMoves(zoom_at(camera, delta, lon_delta, lat_delta))

\* MapSystem::set_center
SystemSetCenter(lon, lat) == CameraMoves(set_center(camera, lon, lat))

\* MapSystem::set_zoom
SystemSetZoom(zoom) == CameraMoves(set_zoom(camera, zoom))

\* A fetch task of the wasm32 build ends: between two updates.
SystemWasmTaskDone(task, outcome) ==
    /\ frame.pc = "idle"
    /\ WasmTaskDone(task, outcome)

NextSystem ==
    \/ UpdateBegin
    \/ \E d \in Decodings : UpdatePoll(d)
    \/ UpdateEnd
    \/ SystemRender
    \/ SystemResize(SystemViewport, SystemViewport)
    \/ SystemPan(Turn, 0)
    \/ \E d \in Signed({ZoomUnits}) : SystemZoom(d)
    \/ \E d \in Signed({ZoomUnits}) : SystemZoomAt(d, 0, 0)
    \/ SystemSetCenter(0, 0)
    \/ \E zoom \in SystemZooms : SystemSetZoom(zoom)
    \/ WorkerRecv
    \/ \E o \in FetchOutcomes : WorkerSend(o)
    \/ \E t \in loader.tasks, o \in FetchOutcomes : SystemWasmTaskDone(t, o)

SpecSystem == InitSystem /\ [][NextSystem]_vars

(***************************************************************************)
(* Properties of the MapSystem.                                            *)
(***************************************************************************)
\* A step is the request loop of an update.
RequestLoopStep == frame.pc = "idle" /\ frame'.pc = "requested"

\* A step is the return of an update.
UpdateReturnStep == Polling /\ frame'.pc = "idle"

\* C27: across the updates and the camera motion between them, a fetch is
\* dispatched only by the request loop of an update and only for a tile that
\* is visible, not in the cache and not pending when the loop begins; no tile
\* ever has two fetches in flight; and is_loading(K) is true exactly while
\* one fetch of K has been dispatched and poll has not returned its result.
C27_DispatchOnlyNeeded ==
    /\ [][\A k \in Dispatched(loader, loader') :
              /\ RequestLoopStep
              /\ k \in Range(visible_tiles(camera))
              /\ ~contains(cache, k)
              /\ ~is_loading(loader, k)]_vars
    /\ [](\A k \in SystemKeys :
              /\ InFlight(loader, k) <= 1
              /\ is_loading(loader, k) <=> InFlight(loader, k) = 1)

\* The request loop of the second update has dispatched a fetch, has passed
\* over a visible tile that the cache holds and over a visible tile that has
\* been pending since the first update.
C27_Witness ==
    /\ frame.pc = "requested"
    /\ frame.n = 2
    /\ frame.sent # {}
    /\ \E k \in Range(frame.visible) : contains(cache, k) /\ InFlight(loader, k) = 0
    /\ \E k \in Range(frame.visible) \ frame.sent : is_loading(loader, k)

\* C28: a tile whose fetch failed or whose bytes did not decode is, from the
\* poll of that result on and when the update returns, neither in the cache
\* nor pending; nothing between two updates changes that; and the request
\* loop of the next update dispatches a fetch for it if it is visible then,
\* every time this happens.
C28_FailedTileRetried ==
    /\ [](\A k \in frame.failed : ~contains(cache, k) /\ ~is_loading(loader, k))
    /\ [][frame.pc = "idle" /\ frame'.pc = "idle"
              => cache' = cache /\ loader'.pending = loader.pending]_vars
    /\ [][RequestLoopStep
              => \A k \in frame.failed \cap Range(frame'.visible) :
                     k \in Dispatched(loader, loader') /\ is_loading(loader', k)]_vars

\* The second update has dispatched a fetch for a tile whose result the
\* first update polled without inserting a tile.
C28_Witness ==
    /\ frame.pc = "requested"
    /\ frame.n = 2
    /\ \E k \in frame.again : is_loading(loader, k) /\ ~contains(cache, k)

\* The sub-list of the tiles of a list that C holds.
ResidentSublist(tiles, C) == SelectSeq(tiles, LAMBDA k : k \in DOMAIN C.tiles)

\* The tiles of the draws of a render, in the order of the draws.
Drawn(draws) == [i \in 1..Len(draws) |-> draws[i][1]]

\* C29: when an update returns, the render list is the sub-list of the
\* visible tiles of that update, in their order, that the cache holds after
\* the insertions and evictions of that update, whatever the list was
\* before; and a render between two updates finds every tile of the list by
\* peek and draws it.
C29_RenderListIsVisibleResident ==
    /\ [][UpdateReturnStep => render_tiles' = ResidentSublist(frame.visible, cache')]_vars
    /\ [](frame.pc = "idle" => Drawn(render(render_tiles, cache)) = render_tiles)

\* After the second update, made at zoom level 1, the render list holds
\* some of the visible tiles and not all of them.
C29_Witness ==
    /\ frame.pc = "idle"
    /\ frame.n = 2
    /\ tile_zoom(camera) = 1
    /\ render_tiles # <<>>
    /\ render_tiles # visible_tiles(camera)
    /\ render_tiles = ResidentSublist(visible_tiles(camera), cache)

\* C30: a tile whose fetch has not completed is pending, and no step
\* dispatches another fetch for it for as long as that fetch has not
\* completed; while there is such a fetch, request returns for every tile
\* with the tile pending, poll returns None when no result is queued and the
\* next queued result otherwise, and an update that is running can take its
\* next step.
C30_HangingFetchStaysPending ==
    /\ [](\A r \in Fetching(loader) : is_loading(loader, r.tile_id))
    /\ [][\A r \in Fetching(loader) \cap Fetching(loader') :
              r.tile_id \notin Dispatched(loader, loader')]_vars
    /\ [](Fetching(loader) # {} =>
              /\ \A k \in SystemKeys : is_loading(request(loader, k, 1), k)
              /\ loader.result_rx = <<>> => poll(loader).result = None
              /\ loader.result_rx # <<>> =>
                     /\ poll(loader).result # None
                     /\ Len(poll(loader).loader.result_rx) = Len(loader.result_rx) - 1
              /\ Polling => ENABLED (UpdateEnd \/ \E d \in Decodings : UpdatePoll(d)))

\* The request loop of the second update has passed over a visible tile
\* whose fetch, dispatched by the first update, has not completed.
C30_Witness ==
    /\ frame.pc = "requested"
    /\ frame.n = 2
    /\ \E r \in Fetching(loader) :
          /\ r.tile_id \in Range(frame.visible)
          /\ r.tile_id \notin frame.sent
          /\ is_loading(loader, r.tile_id)

(***************************************************************************)
(* Properties of the fetch-execution contexts.                             *)
(***************************************************************************)
\* The fetch numbers of a sequence of requests or results, in its order.
FidsOf(q) == [i \in 1..Len(q) |-> q[i].fid]

\* The fetches of the native loader that poll has not returned, from the one
\* poll returns next to the one it returns last if nothing else is requested.
Pipeline(L) == FidsOf(L.result_rx) \o FidsOf(L.worker) \o FidsOf(L.request_tx)

\* q is in strictly increasing order.
Increasing(q) == \A i, j \in 1..Len(q) : i < j => q[i] < q[j]

\* C31: on the native target the one worker thread holds at most one
\* request at a time and no fetch runs elsewhere; the fetches that poll has
\* not returned stand in the order in which request accepted them, results
\* first, then the fetch at the worker, then the waiting requests; and every
\* fetch that poll has returned was accepted before all of them, so poll
\* returns the results in the order of acceptance.
C31_NativeWorkerInOrder ==
    loader.target = "native" =>
        /\ Len(loader.worker) <= 1
        /\ loader.tasks = {}
        /\ Increasing(Pipeline(loader))
        /\ \A f \in returned : \A i \in 1..Len(Pipeline(loader)) : f < Pipeline(loader)[i]
        /\ (lastCall.op = "poll" /\ lastCall.ret # None) =>
               \A f \in returned : f <= lastCall.ret[1].fid

\* Poll has returned the first result while the second is queued and the
\* worker is fetching the third.
C31_Witness ==
    /\ loader.target = "native"
    /\ returned # {}
    /\ loader.result_rx # <<>>
    /\ loader.worker # <<>>
    /\ lastCall.op = "poll"
    /\ lastCall.ret # None

(***************************************************************************)
(* loader.rs on wasm32, with the mutex of the result buffer and the steps  *)
(* of a fetch task. There is one thread: a task runs from one await to the *)
(* next without anything else running, so a step below is one such run.    *)
(***************************************************************************)
\* The holder of the mutex when poll holds it (a task holds it under its
\* fetch number, which is 1 or more).
PollHolder == 0

\* Mutex::lock by `who`. The mutex is None when no guard lives and Some of
\* the holder otherwise. A second lock on the one thread cannot be waited
\* out: it panics or never returns, and either way the caller gets no guard.
mutex_lock(m, who) ==
    IF m = None THEN [ok |-> TRUE, mutex |-> Some(who)] ELSE [ok |-> FALSE, mutex |-> m]

\* A guard that outlives its block.
guard_kept(m, who) == m

\* The guard of `who` goes out of scope.
guard_drop(m, who) == IF m = Some(who) THEN None ELSE m

\* The steps at which the future of a task is resumed, and what it can find
\* there: `ok` goes on to the next await (or to the push of the bytes), every
\* other value leaves the inner async block through `?` or `return Err`.
StartResults == {"request", "header", "window", "ok"}
FetchResults == {"rejected", "cast", "status", "buffer", "ok"}
ReadResults == {"rejected", "ok"}

\* `match result { Ok(bytes) => Success, Err(err) => Failed }`
task_outcome(step, r) == IF step = "read" /\ r = "ok" THEN "Success" ELSE "Failed"

\* The tasks and the mutex before any request: no task, no guard, no push,
\* no lock that failed.
WasmState(n) ==
    [ mutex  |-> None,
      at     |-> [f \in 1..n |-> "none"],
      pushes |-> [f \in 1..n |-> 0],
      faults |-> {} ]

\* request on wasm32: the fetch is dispatched as a task that has not run yet.
wasm_spawned(W, L, L2, fid) ==
    IF NewFetches(L, L2) > 0 THEN [W EXCEPT !.at[fid] = "spawned"] ELSE W

\* The end of a task: `if let Ok(mut results) = result_buffer.lock() {
\* results.push(tile_result); }`
task_push(W, L, task, outcome) ==
    LET got == mutex_lock(W.mutex, task.fid) IN
    IF got.ok
    THEN [ wasm   |-> [W EXCEPT !.mutex = guard_drop(got.mutex, task.fid),
                                !.at[task.fid] = "done",
                                !.pushes[task.fid] = @ + 1],
           loader |-> wasm_task_done(L, task, outcome) ]
    ELSE [ wasm   |-> [W EXCEPT !.at[task.fid] = "done", !.faults = @ \cup {"push"}],
           loader |-> [L EXCEPT !.tasks = @ \ {task}] ]

\* One run of a task that is at `step` and finds r.
task_resume(W, L, task, step, r) ==
    IF r = "ok" /\ step # "read"
    THEN [ wasm   |-> [W EXCEPT !.at[task.fid] = IF step = "spawned" THEN "fetch" ELSE "read"],
           loader |-> L ]
    ELSE task_push(W, L, task, task_outcome(step, r))

\* poll on wasm32: `let mut results = self.result_rx.lock().unwrap();` and
\* the pop, the guard living to the end of the call.
wasm_poll(W, L) ==
    LET got == mutex_lock(W.mutex, PollHolder) IN
    IF got.ok
    THEN [ wasm |-> [W EXCEPT !.mutex = guard_drop(got.mutex, PollHolder)], polled |-> poll(L) ]
    ELSE [ wasm |-> [W EXCEPT !.faults = @ \cup {"poll"}],
           polled |-> [loader |-> L, result |-> None] ]

\* The tiles requested of the loader of wasm32: two, so that a tile is
\* requested again while and after it is fetched.
WasmKeys == TileKeys(2)

InitWasm ==
    /\ loader = TileLoader_new("wasm32")
    /\ mirror = None
    /\ mirrorRet = None
    /\ InitHistory
    /\ wasm = WasmState(MaxFetches)
    /\ InitCacheIdle
    /\ InitCameraIdle
    /\ InitTileIdle
    /\ InitSystemIdle

UnchangedByWasm ==
    UNCHANGED <<mirror, mirrorRet, cacheVars, cameraVars, tileVars, systemVars>>

WasmRequest(tile_id) ==
    LET fid == Len(dispatched) + 1
        L2 == request(loader, tile_id, fid)
    IN /\ NewFetches(loader, L2) > 0 => Len(dispatched) < MaxFetches
       /\ loader' = L2
       /\ wasm' = wasm_spawned(wasm, loader, L2, fid)
       /\ dispatched' = IF NewFetches(loader, L2) > 0 THEN Append(dispatched, tile_id) ELSE dispatched
       /\ lastCall' = Call("request", Some(tile_id), None)
       /\ UNCHANGED <<returned, cleared>>
       /\ UnchangedByWasm

WasmPoll ==
    LET got == wasm_poll(wasm, loader) IN
    /\ loader' = got.polled.loader
    /\ wasm' = got.wasm
    /\ returned' = IF got.polled.result = None THEN returned
                   ELSE returned \cup {got.polled.result[1].fid}
    /\ lastCall' = Call("poll", None, got.polled.result)
    /\ UNCHANGED <<dispatched, cleared>>
    /\ UnchangedByWasm

WasmClearPending ==
    /\ loader' = clear_pending(loader)
    /\ cleared' = (cleared \/ loader.pending # {})
    /\ lastCall' = Call("clear_pending", None, None)
    /\ UNCHANGED <<dispatched, returned, wasm>>
    /\ UnchangedByWasm

\* The event loop resumes the task that is at `step`.
TaskResume(task, step, r) ==
    LET got == task_resume(wasm, loader, task, step, r) IN
    /\ task \in loader.tasks
    /\ wasm.at[task.fid] = step
    /\ loader' = got.loader
    /\ wasm' = got.wasm
    /\ UNCHANGED <<dispatched, returned, lastCall, cleared>>
    /\ UnchangedByWasm

\* The first run of a task: up to the await of the fetch.
TaskStart(task, r) == TaskResume(task, "spawned", r)

\* The fetch has settled: up to the await of the array buffer.
TaskFetched(task, r) == TaskResume(task, "fetch", r)

\* The array buffer has settled: the bytes or the error.
TaskRead(task, r) == TaskResume(task, "read", r)

NextWasm ==
    \/ \E k \in WasmKeys : WasmRequest(k)
    \/ WasmPoll
    \/ WasmClearPending
    \/ \E t \in loader.tasks, r \in StartResults : TaskStart(t, r)
    \/ \E t \in loader.tasks, r \in FetchResults : TaskFetched(t, r)
    \/ \E t \in loader.tasks, r \in ReadResults : TaskRead(t, r)

SpecWasm == InitWasm /\ [][NextWasm]_vars

\* C32: on wasm32 no guard of the result buffer's mutex lives when a call or
\* a run of a task has ended, so none lives across an await; no lock, of
\* poll or of a task, has found the mutex held; and every task that has
\* ended, at whichever step and with either outcome, has pushed exactly one
\* result, which is queued or has been returned by poll, while a task that
\* has not ended has pushed none.
C32_MutexHeldForPushOrPop ==
    /\ wasm.mutex = None
    /\ wasm.faults = {}
    /\ \A f \in Fids :
          /\ wasm.at[f] # "none"
          /\ wasm.pushes[f] = (IF wasm.at[f] = "done" THEN 1 ELSE 0)
          /\ wasm.at[f] = "done" <=> f \in returned \cup Queued
          /\ Places(f) = 1

\* A task has ended with a failure and another with the bytes, one result
\* has been returned by poll and the other is queued, and a third task is
\* waiting for its fetch.
C32_Witness ==
    /\ \E i \in 1..Len(loader.result_rx) : wasm.pushes[loader.result_rx[i].fid] = 1
    /\ \E f \in returned : wasm.pushes[f] = 1
    /\ \E t \in loader.tasks : wasm.at[t.fid] \in {"fetch", "read"}
    /\ lastCall.op = "poll"
    /\ lastCall.ret # None

(***************************************************************************)
(* Properties of the sub-region of a tile in an ancestor.                  *)
(***************************************************************************)
\* The tiles at zoom z under the tile p.
Descendants(p, z) ==
    LET n == Pow2(z - p.z)
    IN { TileId(p.x * n + i, p.y * n + j, z) : i \in 0..(n - 1), j \in 0..(n - 1) }

\* The cell (i, j) of side `side` lies in the rectangle r.
CellIn(i, j, side, r) ==
    /\ r[1] <= i * side /\ (i + 1) * side <= r[3]
    /\ r[2] <= j * side /\ (j + 1) * side <= r[4]

\* C33: for a target T and its ancestor P at a zoom d levels coarser,
\* calculate_sub_region(T, P) is the square of side 1/2^d whose top-left
\* corner is ((T.x - P.x*2^d)/2^d, (T.y - P.y*2^d)/2^d); it lies in the unit
\* square, and every cell of side 1/2^d of the unit square lies in the
\* sub-region of exactly one of the 4^d descendants of P at the zoom of T
\* (this last for zooms up to MaxSubZoom); for a parent that is not coarser
\* than the target the result is (0, 0, 1, 1).
C33_SubRegionOfAncestor ==
    tileCall.op = "calculate_sub_region" /\ tileCall.pc = "done" =>
        LET T == tileCall.args[1]
            P == tileCall.args[2]
            r == tileCall.ret
            d == T.z - P.z
            n == Pow2(d)
            side == UvOne \div n
        IN /\ P.z >= T.z => r = <<0, 0, UvOne, UvOne>>
           /\ parent_at_zoom(T, P.z) = Some(P) =>
                 /\ side * n = UvOne
                 /\ r[1] = (T.x - P.x * n) * side
                 /\ r[2] = (T.y - P.y * n) * side
                 /\ r[3] = r[1] + side
                 /\ r[4] = r[2] + side
                 /\ 0 <= r[1] /\ r[3] <= UvOne
                 /\ 0 <= r[2] /\ r[4] <= UvOne
                 /\ T.z <= MaxSubZoom =>
                       \A i, j \in 0..(n - 1) :
                           Cardinality({ D \in Descendants(P, T.z) :
                               CellIn(i, j, side, calculate_sub_region(D, P)) }) = 1

\* The sub-region of the last tile of zoom 19 in the tile of zoom 0 has been
\* computed, and is the last cell of side 2^-19.
C33_Witness ==
    /\ tileCall.op = "calculate_sub_region"
    /\ tileCall.pc = "done"
    /\ tileCall.args = <<TileId(Pow2(MaxZoomLevel) - 1, Pow2(MaxZoomLevel) - 1, MaxZoomLevel),
                         TileId(0, 0, 0)>>
    /\ tileCall.ret[3] = UvOne
    /\ tileCall.ret[1] = UvOne - 32


(***************************************************************************)
(* The byte size of a tile texture (loader.rs tile_memory_size, and the    *)
(* same expression in renderer.rs). A u32 is kept at its width, as its four *)
(* base-256 digits, lowest first.                                          *)
(***************************************************************************)
Byte == 256
U32Digits == 4

\* The digits of a number below 2^31.
ToDigits(n) == [k \in 1..U32Digits |-> (n \div (Byte ^ (k - 1))) % Byte]

\* The largest u32.
U32Max == [k \in 1..U32Digits |-> Byte - 1]

\* The sum of the digit products a[i] * b[j] of column k (i + j = k + 1),
\* from digit i of a on.
RECURSIVE ColSum(_, _, _, _)
ColSum(a, b, k, i) ==
    IF i > Len(a) THEN 0
    ELSE (IF (k + 1 - i) \in 1..Len(b) THEN a[i] * b[k + 1 - i] ELSE 0) + ColSum(a, b, k, i + 1)

\* The carry into column k.
RECURSIVE CarryIn(_, _, _)
CarryIn(a, b, k) ==
    IF k = 1 THEN 0 ELSE (ColSum(a, b, k - 1, 1) + CarryIn(a, b, k - 1)) \div Byte

\* The product of two numbers in full, with as many digits as both together.
MulWide(a, b) == [k \in 1..(Len(a) + Len(b)) |-> (ColSum(a, b, k, 1) + CarryIn(a, b, k)) % Byte]

\* `a * b` on u32: the low 32 bits of the product, and whether bits were lost.
u32_mul(a, b) ==
    LET p == MulWide(a, b)
    IN [ value |-> SubSeq(p, 1, U32Digits),
         overflow |-> \E k \in (U32Digits + 1)..Len(p) : p[k] # 0 ]

\* tile_memory_size: `(width * height * 4) as usize`. An overflowing u32
\* multiplication panics in a build with overflow checks and wraps in one
\* without; the cast widens or keeps the 32 bits and changes no value.
tile_memory_size(width, height, overflow_checks) ==
    LET wh == u32_mul(width, height)
        r == u32_mul(wh.value, ToDigits(4))
    IN IF overflow_checks /\ (wh.overflow \/ r.overflow)
       THEN [panic |-> TRUE, value |-> <<>>]
       ELSE [panic |-> FALSE, value |-> r.value]

\* The widths and heights given to tile_memory_size.
RasterSizes ==
    { ToDigits(n) : n \in {0, 1, 255, 256, 257, 4096, 16384, 32767, 32768, 65535, 65536} }
      \cup {U32Max}

InitByteSize ==
    /\ \E width \in RasterSizes, height \in RasterSizes, overflow_checks \in BOOLEAN :
          tileCall = TileCall("tile_memory_size", <<width, height, overflow_checks>>, <<>>, "call")
    /\ InitLoaderIdle
    /\ InitCacheIdle
    /\ InitCameraIdle
    /\ InitSystemIdle
    /\ InitWasmIdle

TileMemorySize ==
    /\ tileCall.op = "tile_memory_size"
    /\ tileCall.pc = "call"
    /\ tileCall' = [tileCall EXCEPT
                       !.ret = tile_memory_size(tileCall.args[1], tileCall.args[2], tileCall.args[3]),
                       !.pc = "done"]
    /\ UNCHANGED <<loaderVars, cacheVars, cameraVars, systemVars, wasmVars>>

NextByteSize == TileMemorySize

SpecByteSize == InitByteSize /\ [][NextByteSize]_vars

\* width * height * 4 in full.
ExactByteSize(width, height) == MulWide(MulWide(width, height), ToDigits(4))

\* C34: tile_memory_size(width, height) returns width * height * 4 for every
\* u32 width and height: it does not panic, and what it returns, widened,
\* is the product in full.
C34_ByteSizeExact ==
    tileCall.op = "tile_memory_size" /\ tileCall.pc = "done" =>
        LET exact == ExactByteSize(tileCall.args[1], tileCall.args[2])
        IN /\ ~tileCall.ret.panic
           /\ tileCall.ret.value \o [k \in 1..(Len(exact) - U32Digits) |-> 0] = exact

\* tile_memory_size(32768, 32768) has returned 0 in a build without
\* overflow checks.
C34_Wrapped ==
    /\ tileCall.op = "tile_memory_size"
    /\ tileCall.pc = "done"
    /\ tileCall.args = <<ToDigits(32768), ToDigits(32768), FALSE>>
    /\ tileCall.ret = [panic |-> FALSE, value |-> ToDigits(0)]

\* The estimate is exact whenever the product in full fits 32 bits, the
\* tiles of 256 by 256 pixels among them.
ByteSizeExactWhenItFits ==
    tileCall.op = "tile_memory_size" /\ tileCall.pc = "done" =>
        LET exact == ExactByteSize(tileCall.args[1], tileCall.args[2])
        IN (\A k \in (U32Digits + 1)..Len(exact) : exact[k] = 0) =>
              /\ ~tileCall.ret.panic
              /\ tileCall.ret.value = SubSeq(exact, 1, U32Digits)
              /\ tileCall.args[1] = ToDigits(256) /\ tileCall.args[2] = ToDigits(256) =>
                    tileCall.ret.value = ToDigits(262144)

(***************************************************************************)
(* The budgets of the cache.                                               *)
(***************************************************************************)
\* C35: in every state the cache reaches, the memory_size of the resident
\* entries sums to max_memory at most, or exactly one entry is resident: two
\* or more entries are never resident together above max_memory.
C35_OverBudgetOnlyAlone ==
    \/ ResidentMemory(cache) <= cache.max_memory
    \/ Cardinality(DOMAIN cache.tiles) = 1

\* In a cache that could hold three entries by count, an insert under a new
\* key of an entry larger than max_memory has evicted the one resident
\* entry, which fitted, and the new entry is alone resident above the budget.
C35_Witness ==
    /\ cache.max_tiles = MaxTilesChoice
    /\ cache.max_memory = 1
    /\ cacheCall.op = "insert"
    /\ ~cacheCall.hit
    /\ cacheCall.evicted = 1
    /\ Cardinality(DOMAIN cache.tiles) = 1
    /\ ResidentMemory(cache) > cache.max_memory

\* C36: a cache built with max_tiles >= 1 never holds more than max_tiles
\* entries.
C36_CountWithinMaxTiles ==
    cache.max_tiles >= 1 => Cardinality(DOMAIN cache.tiles) <= cache.max_tiles

\* A cache of two entries at most, with memory to spare for a third, is
\* full after an insert under a new key that evicted one entry.
C36_Witness ==
    /\ cache.max_tiles = 2
    /\ cacheCall.op = "insert"
    /\ ~cacheCall.hit
    /\ cacheCall.evicted = 1
    /\ Cardinality(DOMAIN cache.tiles) = 2
    /\ ResidentMemory(cache) + MaxTileMem <= cache.max_memory

\* The entry of size m fits both budgets of C under the resident key k, the
\* old entry of k discounted: the count stays as it is, and the total less
\* the old size plus m is within max_memory.
FitsAsReplacement(C, k, m) ==
    /\ k \in DOMAIN C.tiles
    /\ Cardinality(DOMAIN C.tiles) <= C.max_tiles
    /\ C.current_memory - C.tiles[k].memory_size + m <= C.max_memory

C37_ReplacementEvicted ==
    /\ cache.max_tiles = 2
    /\ cache.max_memory = 2 * MaxTileMem
    /\ cacheCall.op = "insert"
    /\ cacheCall.hit
    /\ cacheCall.evicted = 1
    /\ Cardinality(DOMAIN cache.tiles) = 1
    /\ ResidentMemory(cache) = 1

(***************************************************************************)
(* The frame loop running for ever with the camera at rest, every fetch    *)
(* ending with the bytes and every decoding giving a tile of 256 x 256.    *)
(***************************************************************************)
\* update, steps 1 and 2, in a frame loop whose updates are not counted.
\* The locals are bound to their values once.
FrameBegin ==
    /\ frame.pc = "idle"
    /\ \E visible \in {visible_tiles(camera)} :
       \E L2 \in {request_visible(visible, cache, loader)} :
       \E sent \in {Dispatched(loader, L2)} :
          /\ loader' = L2
          /\ frame' = Frame("requested", frame.n, visible, sent, frame.failed \cap sent, {})
    /\ UNCHANGED <<cache, camera, render_tiles>>
    /\ UnchangedBySystem

\* One round of the drain loop of update: poll, and the body or the exit.
DrainStep == UpdateEnd \/ \E d \in Decodings : UpdatePoll(d)

\* The decoding of the bytes of a tile of the tile server.
DecodedTile == Some(CachedTile(TileBytes))

NextSteady ==
    \/ FrameBegin
    \/ UpdatePoll(DecodedTile)
    \/ UpdateEnd
    \/ SystemRender
    \/ WorkerRecv
    \/ WorkerSend("Success")
    \/ \E t \in loader.tasks : SystemWasmTaskDone(t, "Success")

\* The event loop calls update for every frame and update runs to its end;
\* the worker thread is scheduled and its fetch ends; the tasks of wasm32 run
\* between two frames, which is where they are enabled, again and again.
SpecSteady ==
    /\ InitSystem
    /\ [][NextSteady]_vars
    /\ WF_vars(FrameBegin)
    /\ WF_vars(UpdateEnd \/ UpdatePoll(DecodedTile))
    /\ WF_vars(WorkerRecv)
    /\ WF_vars(WorkerSend("Success"))
    /\ SF_vars(\E t \in loader.tasks : SystemWasmTaskDone(t, "Success"))

AllVisibleResident == \A k \in Range(visible_tiles(camera)) : contains(cache, k)

\* C38: with the camera at rest, the visible tiles within both budgets of
\* the cache, and every fetch ending with bytes that decode, the updates
\* reach a state from which every visible tile is resident for ever; and a
\* step taken while every visible tile is resident dispatches no fetch and
\* takes no entry out of the cache.
C38_ReachesSteadyState ==
    /\ <>[]AllVisibleResident
    /\ [][AllVisibleResident =>
             /\ Dispatched(loader, loader') = {}
             /\ DOMAIN cache.tiles \subseteq DOMAIN cache'.tiles]_vars

\* The four tiles of zoom level 1 are resident, nothing is in flight, and
\* the request loop of a further update has run.
C38_Witness ==
    /\ tile_zoom(camera) = 1
    /\ Cardinality(DOMAIN cache.tiles) = 4
    /\ AllVisibleResident
    /\ frame.pc = "requested"
    /\ Fetching(loader) = {}
    /\ loader.result_rx = <<>>
    /\ loader.pending = {}

(***************************************************************************)
(* The loader with one tile whose fetches never end, every other fetch     *)
(* ending, the worker thread and the tasks being scheduled and the caller  *)
(* polling again and again.                                                *)
(***************************************************************************)
\* The tile whose fetches hang.
HangKey == TileId(0, 0, MaxZoomLevel)

\* The native worker's fetch of a tile other than HangKey ends.
WorkerSendOther(outcome) ==
    /\ loader.worker # <<>>
    /\ loader.worker[1].tile_id # HangKey
    /\ WorkerSend(outcome)

\* The fetch of a wasm32 task for a tile other than HangKey ends.
WasmTaskDoneOther(task, outcome) ==
    /\ task.tile_id # HangKey
    /\ WasmTaskDone(task, outcome)

NextHang ==
    \/ \E k \in Keys : Request(k)
    \/ Poll
    \/ ClearPending
    \/ WorkerRecv
    \/ \E o \in FetchOutcomes : WorkerSendOther(o)
    \/ \E t \in AllRequests, o \in FetchOutcomes : WasmTaskDoneOther(t, o)

SpecHang ==
    /\ Init
    /\ [][NextHang]_vars
    /\ WF_vars(Poll)
    /\ WF_vars(WorkerRecv)
    /\ WF_vars(\E o \in FetchOutcomes : WorkerSendOther(o))
    /\ \A t \in AllRequests : WF_vars(\E o \in FetchOutcomes : WasmTaskDoneOther(t, o))

\* The fetch numbered f has been dispatched for a tile other than HangKey.
DispatchedForOther(f) == f <= Len(dispatched) /\ dispatched[f] # HangKey

HangDelaysOnlyItsKeyWasm ==
    \A f \in 1..MaxFetches :
        (loader.target = "wasm32" /\ DispatchedForOther(f)) ~> (f \in returned)

\* The native worker is fetching HangKey while a request for another tile
\* waits on the channel.
C39_BlockedBehindHang ==
    /\ loader.target = "native"
    /\ loader.worker # <<>>
    /\ loader.worker[1].tile_id = HangKey
    /\ \E i \in 1..Len(loader.request_tx) : loader.request_tx[i].tile_id # HangKey

(***************************************************************************)
(* The frame loop running for ever with the camera at rest, fetches ending *)
(* either way and decodings of every kind: the drain loop of update.       *)
(***************************************************************************)
NextFrames ==
    \/ FrameBegin
    \/ \E d \in Decodings : UpdatePoll(d)
    \/ UpdateEnd
    \/ SystemRender
    \/ WorkerRecv
    \/ \E o \in FetchOutcomes : WorkerSend(o)
    \/ \E t \in loader.tasks, o \in FetchOutcomes : SystemWasmTaskDone(t, o)

\* An update that has begun goes on: its thread is scheduled. Nothing is
\* assumed of the worker thread or of the fetches.
SpecFrames ==
    /\ InitSystem
    /\ [][NextFrames]_vars
    /\ WF_vars(DrainStep)

\* The number of fetches dispatched whose result poll has not returned.
InFlightAll(L) ==
    Len(L.request_tx) + Len(L.worker) + Cardinality(L.tasks) + Len(L.result_rx)

\* C40: the drain loop of an update ends: an update whose request loop has
\* run returns. While it runs, a step either leaves the number of fetches
\* in flight as it is or is a round of the loop in which poll returned a
\* result: that round takes one fetch of the result's tile out of those in
\* flight, and either leaves the cache as it is, the tile being noted as not
\* inserted, or inserts one decoded tile under the tile id of a Success. The
\* round in which poll returns None is the one in which update returns.
C40_DrainLoopTerminates ==
    /\ Polling ~> (frame.pc = "idle")
    /\ [][Polling =>
            LET got == poll(loader) IN
            /\ frame'.pc = "idle" <=> (got.result = None /\ frame' # frame)
            /\ \/ InFlightAll(loader') = InFlightAll(loader)
               \/ /\ got.result # None
                  /\ frame'.pc = "poll"
                  /\ InFlightAll(loader') = InFlightAll(loader) - 1
                  /\ InFlight(loader', got.result[1].tile_id)
                         = InFlight(loader, got.result[1].tile_id) - 1
                  /\ IF got.result[1].tile_id \in frame'.failed
                     THEN cache' = cache
                     ELSE /\ got.result[1].kind = "Success"
                          /\ \E d \in Decodings \ {None} :
                                cache' = insert(cache, got.result[1].tile_id, d[1])]_vars

\* The drain loop of the first update that got results has inserted a tile
\* and passed over a result without inserting, and its next poll returns
\* None while a fetch is still in flight.
C40_Witness ==
    /\ frame.pc = "poll"
    /\ render_tiles = <<>>
    /\ DOMAIN cache.tiles # {}
    /\ frame.failed # {}
    /\ poll(loader).result = None
    /\ Fetching(loader) # {}
====
